---- MODULE Spec2Model ----
(***************************************************************************)
(* Model of the entity query engine of LightRAG:                           *)
(*   lightrag/entity_query_filters.py          (filter value objects)      *)
(*   lightrag/services/entity_query_service.py (EntityQueryService)        *)
(*                                                                         *)
(* Conventions.                                                            *)
(*   - A Python str is a sequence of code points (65 = "A", 97 = "a").     *)
(*   - An Optional value is <<>> (None) or <<v>>.                          *)
(*   - A Python dict is a function on its keys; a missing key is a key     *)
(*     that is not in DOMAIN.                                              *)
(*   - A float weight is an integer number of tenths (10 is 1.0).          *)
(*   - A field that is a str or a list carries its type:                   *)
(*     [kind |-> "str", v |-> s] or [kind |-> "list", v |-> <<s1, ...>>].  *)
(*   - Every await of a store call is one step of the state machine; the   *)
(*     code that runs between two awaits belongs to the step of the        *)
(*     first one.                                                          *)
(***************************************************************************)
EXTENDS Integers, Sequences, FiniteSets, TLC

VARIABLES
    graph,        \* chunk_entity_relation_graph: the graph store's content
    text_chunks,  \* text_chunks: the chunk store's content (chunk id -> record)
    req,          \* the request in flight: operation and its arguments
    pc,           \* position of the request's coroutine
    loc,          \* local variables of the coroutine
    calls,        \* store calls issued so far, in order
    result,       \* <<>> while running, <<value>> once the operation returned
    suspended     \* the other requests in flight, each held at an await

vars == <<graph, text_chunks, req, pc, loc, calls, result, suspended>>

-----------------------------------------------------------------------------
(* Python values *)

None == <<>>
Some(v) == <<v>>

Get(d, k, default) == IF k \in DOMAIN d THEN d[k] ELSE default

\* d.get(k) as an Optional
GetOpt(d, k) == IF k \in DOMAIN d THEN Some(d[k]) ELSE None

\* {**base, **over}
Merge(base, over) ==
    [k \in (DOMAIN base) \cup (DOMAIN over) |->
        IF k \in DOMAIN over THEN over[k] ELSE base[k]]

\* truth value of an Optional[int] and of an Optional list or str
IntTruthy(o) == o # None /\ o[1] # 0
SeqTruthy(o) == o # None /\ o[1] # <<>>

\* a or b, on Optional[int]
IntOr(a, b) == IF IntTruthy(a) THEN a ELSE b

MinOf(S) == CHOOSE m \in S : \A n \in S : m <= n

Str(v) == [kind |-> "str", v |-> v]
List(v) == [kind |-> "list", v |-> v]

\* str.lower()
LowerChar(c) == IF c >= 65 /\ c <= 90 THEN c + 32 ELSE c
lower(s) == [i \in 1..Len(s) |-> LowerChar(s[i])]

\* needle in hay, on str
StrIn(needle, hay) ==
    \E i \in 0..(Len(hay) - Len(needle)) :
        \A j \in 1..Len(needle) : hay[i + j] = needle[j]

\* x in items, on a list
ListIn(x, items) == \E i \in 1..Len(items) : items[i] = x

\* "<SEP>"
GRAPH_FIELD_SEP == <<60, 83, 69, 80, 62>>

\* str.split(sep)
RECURSIVE split(_, _)
split(s, sep) ==
    LET hits == {i \in 1..(Len(s) - Len(sep) + 1) :
                    SubSeq(s, i, i + Len(sep) - 1) = sep}
    IN  IF hits = {} THEN <<s>>
        ELSE LET i == MinOf(hits)
             IN  <<SubSeq(s, 1, i - 1)>>
                    \o split(SubSeq(s, i + Len(sep), Len(s)), sep)

\* [x for x in items if P(x)]
RECURSIVE SelectIdx(_, _, _)
SelectIdx(items, keep, i) ==
    IF i > Len(items) THEN <<>>
    ELSE (IF i \in keep THEN <<items[i]>> ELSE <<>>) \o SelectIdx(items, keep, i + 1)

-----------------------------------------------------------------------------
(* entity_query_filters.py *)

DEFAULT_MIN_WEIGHT == 0
DEFAULT_MAX_WEIGHT == 10
DEFAULT_MAX_CHUNKS == 100

\* the field defaults of the dataclass
RelationshipFiltersDefaults ==
    [direction |-> "both", relation_types |-> None,
     min_weight |-> DEFAULT_MIN_WEIGHT, max_weight |-> DEFAULT_MAX_WEIGHT,
     keywords |-> None, file_paths |-> None, date_from |-> None,
     date_to |-> None, limit |-> None, offset |-> 0,
     sort_by |-> "weight", sort_order |-> "desc"]

RelationshipFilters(args) == Merge(RelationshipFiltersDefaults, args)

\* __post_init__ without the min_weight test of lines 75-76
RelationshipFilters_post_init_NoMinWeight(self) ==
    /\ ~(self.max_weight < 0 \/ self.max_weight > 10)
    /\ ~(self.min_weight > self.max_weight)
    /\ ~(self.limit # None /\ self.limit[1] < 1)
    /\ ~(self.offset < 0)

\* __post_init__: TRUE when no ValueError is raised
RelationshipFilters_post_init(self) ==
    /\ ~(self.min_weight < 0 \/ self.min_weight > 10)
    /\ ~(self.max_weight < 0 \/ self.max_weight > 10)
    /\ ~(self.min_weight > self.max_weight)
    /\ ~(self.limit # None /\ self.limit[1] < 1)
    /\ ~(self.offset < 0)

DocumentFiltersDefaults ==
    [file_paths |-> None, doc_ids |-> None, chunk_ids |-> None,
     date_from |-> None, date_to |-> None,
     max_chunks |-> DEFAULT_MAX_CHUNKS, offset |-> 0,
     include_full_text |-> TRUE, include_metadata |-> TRUE,
     sort_by |-> "timestamp", sort_order |-> "desc"]

DocumentFilters(args) == Merge(DocumentFiltersDefaults, args)

DocumentFilters_post_init(self) ==
    /\ ~(self.max_chunks < 1)
    /\ ~(self.offset < 0)

-----------------------------------------------------------------------------
(* entity_query_service.py: the relationship resolver's pure helpers *)

\* edge.get("weight", 1.0)
DEFAULT_EDGE_WEIGHT == 10

\* the weight range with its lower boundary excluded
WeightInRange_ExclusiveMin(weight, filters) ==
    ~(weight <= filters.min_weight \/ weight > filters.max_weight)

\* _edge_matches_filters: the weight range
WeightInRange(weight, filters) ==
    ~(weight < filters.min_weight \/ weight > filters.max_weight)

\* _edge_matches_filters and _chunk_matches_filters: the date range of a
\* record whose timestamp is the Optional[int] timestamp
DateInRange(timestamp, filters) ==
    IntTruthy(timestamp) =>
        /\ ~(IntTruthy(filters.date_from) /\ timestamp[1] < filters.date_from[1])
        /\ ~(IntTruthy(filters.date_to) /\ timestamp[1] > filters.date_to[1])

\* edge.get("file_paths", []), split when it is a str
EdgeFilePaths(edge) ==
    LET edge_file_paths == Get(edge, "file_paths", List(<<>>))
    IN  IF edge_file_paths.kind = "str"
        THEN split(edge_file_paths.v, GRAPH_FIELD_SEP)
        ELSE edge_file_paths.v

\* every requested relation type required, not any
_edge_matches_filters_EveryType(edge, neighbor_id, filters) ==
    LET weight == Get(edge, "weight", DEFAULT_EDGE_WEIGHT)
        keywords == Get(edge, "keywords", <<>>)
        description == Get(edge, "description", <<>>)
        combined_text == lower(description \o <<32>> \o keywords)
        edge_file_paths == EdgeFilePaths(edge)
        timestamp == IntOr(GetOpt(edge, "timestamp"), GetOpt(edge, "created_at"))
    IN  /\ WeightInRange(weight, filters)
        /\ SeqTruthy(filters.relation_types) =>
              \A i \in 1..Len(filters.relation_types[1]) :
                  StrIn(lower(filters.relation_types[1][i]), lower(keywords))
        /\ SeqTruthy(filters.keywords) =>
              \E i \in 1..Len(filters.keywords[1]) :
                  StrIn(lower(filters.keywords[1][i]), combined_text)
        /\ SeqTruthy(filters.file_paths) =>
              \E i \in 1..Len(filters.file_paths[1]) :
                  ListIn(filters.file_paths[1][i], edge_file_paths)
        /\ DateInRange(timestamp, filters)

\* _edge_matches_filters, lines 196-252
_edge_matches_filters(edge, neighbor_id, filters) ==
    LET weight == Get(edge, "weight", DEFAULT_EDGE_WEIGHT)
        keywords == Get(edge, "keywords", <<>>)
        description == Get(edge, "description", <<>>)
        combined_text == lower(description \o <<32>> \o keywords)
        edge_file_paths == EdgeFilePaths(edge)
        timestamp == IntOr(GetOpt(edge, "timestamp"), GetOpt(edge, "created_at"))
    IN  /\ WeightInRange(weight, filters)
        /\ SeqTruthy(filters.relation_types) =>
              \E i \in 1..Len(filters.relation_types[1]) :
                  StrIn(lower(filters.relation_types[1][i]), lower(keywords))
        /\ SeqTruthy(filters.keywords) =>
              \E i \in 1..Len(filters.keywords[1]) :
                  StrIn(lower(filters.keywords[1][i]), combined_text)
        /\ SeqTruthy(filters.file_paths) =>
              \E i \in 1..Len(filters.file_paths[1]) :
                  ListIn(filters.file_paths[1][i], edge_file_paths)
        /\ DateInRange(timestamp, filters)

\* a < b on two str keys (code point order)
StrLess(a, b) ==
    \E i \in 1..Len(b) :
        /\ \A j \in 1..(i - 1) : j <= Len(a) /\ a[j] = b[j]
        /\ (i > Len(a) \/ a[i] < b[i])

\* The type of the value a record holds under a field: the stores keep
\* numbers under these fields and str under the other fields that are sorted by.
NumericField(field) ==
    field \in {"weight", "timestamp", "created_at", "chunk_order_index", "tokens"}

Num(v) == [t |-> "num", k |-> v]
StrKey(v) == [t |-> "str", k |-> v]
TypedValue(field, v) == IF NumericField(field) THEN Num(v) ELSE StrKey(v)

\* a < b on two sort keys of the same type
KeyLess(a, b) == IF a.t = "num" THEN a.k < b.k ELSE StrLess(a.k, b.k)

\* sorted() raises TypeError when it compares an int key with a str key,
\* or None with anything
SortRaises(keyed) ==
    \E i, j \in 1..Len(keyed) :
        i # j /\ (keyed[i].key.t # keyed[j].key.t \/ keyed[i].key.t = "none")

\* sorted(items, key=..., reverse=...): stable, also when reverse is set.
\* keyed is the list of [key |-> key(item), it |-> item].
InsertKeyed(done, x, reverse) ==
    LET after == {i \in 1..Len(done) :
                    IF reverse THEN KeyLess(done[i].key, x.key)
                    ELSE KeyLess(x.key, done[i].key)}
        p == IF after = {} THEN Len(done) + 1 ELSE MinOf(after)
    IN  SubSeq(done, 1, p - 1) \o <<x>> \o SubSeq(done, p, Len(done))

RECURSIVE SortKeyed(_, _, _)
SortKeyed(keyed, n, reverse) ==
    IF n = 0 THEN <<>>
    ELSE InsertKeyed(SortKeyed(keyed, n - 1, reverse), keyed[n], reverse)

sorted(keyed, reverse) ==
    LET s == SortKeyed(keyed, Len(keyed), reverse)
    IN  [i \in 1..Len(s) |-> s[i].it]

\* get_sort_key with 1.0, the filter's default, for a missing weight
EdgeSortKey_DefaultWeightOne(edge, sort_field) ==
    IF sort_field \in DOMAIN edge THEN TypedValue(sort_field, edge[sort_field])
    ELSE IF sort_field = "weight" THEN Num(DEFAULT_EDGE_WEIGHT)
    ELSE IF sort_field \in {"timestamp", "created_at"} THEN Num(0)
    ELSE StrKey(<<>>)

\* get_sort_key of _sort_edges
EdgeSortKey(edge, sort_field) ==
    IF sort_field \in DOMAIN edge THEN TypedValue(sort_field, edge[sort_field])
    ELSE IF sort_field = "weight" THEN Num(0)
    ELSE IF sort_field \in {"timestamp", "created_at"} THEN Num(0)
    ELSE StrKey(<<>>)

\* nothing returned when sorted() raises
_sort_edges_EmptyOnFailure(edges, filters) ==
    LET sort_field == filters.sort_by
        reverse == (filters.sort_order = "desc")
        keyed == [i \in 1..Len(edges) |->
                    [key |-> EdgeSortKey(edges[i], sort_field), it |-> edges[i]]]
    IN  IF SortRaises(keyed) THEN <<>> ELSE sorted(keyed, reverse)

\* _sort_edges, lines 254-289
_sort_edges(edges, filters) ==
    LET sort_field == filters.sort_by
        reverse == (filters.sort_order = "desc")
        keyed == [i \in 1..Len(edges) |->
                    [key |-> EdgeSortKey(edges[i], sort_field), it |-> edges[i]]]
    IN  IF SortRaises(keyed) THEN edges ELSE sorted(keyed, reverse)

\* items[start:end + 1]
_apply_pagination_OneMore(items, limit, offset) ==
    LET start == offset
        end == IF IntTruthy(limit) THEN offset + limit[1] + 1 ELSE Len(items)
        stop == IF end > Len(items) THEN Len(items) ELSE end
    IN  SubSeq(items, start + 1, stop)

\* items[start:end]
_apply_pagination(items, limit, offset) ==
    LET start == offset
        end == IF IntTruthy(limit) THEN offset + limit[1] ELSE Len(items)
        stop == IF end > Len(items) THEN Len(items) ELSE end
    IN  SubSeq(items, start + 1, stop)

\* the dict _process_edges builds for one (neighbor_id, edge_data)
EdgeDict(neighbor_id, edge_data, entity_name, direction) ==
    LET source_id == IF direction = "incoming" THEN neighbor_id ELSE entity_name
        target_id == IF direction = "incoming" THEN entity_name ELSE neighbor_id
    IN  Merge([source |-> source_id, target |-> target_id, direction |-> direction],
              edge_data)

\* edges: list of [neighbor_id, edge_data]
_process_edges(edges, entity_name, direction, filters) ==
    LET dicts == [i \in 1..Len(edges) |->
                    EdgeDict(edges[i].neighbor_id, edges[i].edge_data,
                             entity_name, direction)]
        keep == {i \in 1..Len(edges) :
                    _edge_matches_filters(dicts[i], edges[i].neighbor_id, filters)}
    IN  _sort_edges(SelectIdx(dicts, keep, 1), filters)

\* the direction decided by the source endpoint
EdgeDirection_BySource(source_id, target_id, entity_name) ==
    IF source_id = entity_name THEN "outgoing" ELSE "incoming"

\* get_entity_relationships, lines 104-112: the direction of a fetched edge
EdgeDirection(source_id, target_id, entity_name) ==
    IF target_id = entity_name THEN "incoming" ELSE "outgoing"

EdgeWithData(source_id, target_id, edge_data, entity_name) ==
    LET direction == EdgeDirection(source_id, target_id, entity_name)
    IN  [neighbor_id |-> IF direction = "incoming" THEN source_id ELSE target_id,
         edge_data |-> edge_data, direction |-> direction]

\* get_entity_relationships, lines 116-132: the list of one direction before
\* pagination, empty when the filter does not ask for that direction
ProcessedEdges(edges_with_data, entity_name, direction, filters) ==
    LET raw == SelectIdx(edges_with_data,
                         {i \in 1..Len(edges_with_data) :
                             edges_with_data[i].direction = direction}, 1)
    IN  IF filters.direction \in {direction, "both"}
        THEN _process_edges(raw, entity_name, direction, filters)
        ELSE <<>>

\* both directions concatenated, one window cut from the whole, then split
RelationshipsOf_MergedFirst(edges_with_data, entity_name, filters) ==
    LET incoming_all == ProcessedEdges(edges_with_data, entity_name, "incoming", filters)
        outgoing_all == ProcessedEdges(edges_with_data, entity_name, "outgoing", filters)
        page == _apply_pagination(incoming_all \o outgoing_all, filters.limit,
                                  filters.offset)
        only(d) == SelectIdx(page, {i \in 1..Len(page) : page[i].direction = d}, 1)
    IN  [incoming |-> only("incoming"), outgoing |-> only("outgoing"),
         total_count |-> Len(page)]

\* get_entity_relationships from line 116 on: what it returns once every
\* edge's data is fetched
RelationshipsOf(edges_with_data, entity_name, filters) ==
    LET incoming_all == ProcessedEdges(edges_with_data, entity_name, "incoming", filters)
        outgoing_all == ProcessedEdges(edges_with_data, entity_name, "outgoing", filters)
        paginate == IntTruthy(filters.limit) \/ filters.offset # 0
        incoming_edges == IF paginate
                          THEN _apply_pagination(incoming_all, filters.limit,
                                                 filters.offset)
                          ELSE incoming_all
        outgoing_edges == IF paginate
                          THEN _apply_pagination(outgoing_all, filters.limit,
                                                 filters.offset)
                          ELSE outgoing_all
    IN  [incoming |-> incoming_edges, outgoing |-> outgoing_edges,
         total_count |-> Len(incoming_edges) + Len(outgoing_edges)]

EmptyRelationships == [incoming |-> <<>>, outgoing |-> <<>>, total_count |-> 0]

-----------------------------------------------------------------------------
(* entity_query_service.py: the document resolver's pure helpers *)

\* a or b, on two str-or-list fields
TaggedOr(a, b) == IF a.v # <<>> THEN a ELSE b

\* entity_data.get("source_id", "") or entity_data.get("source_ids", ""),
\* then the isinstance tests that make it a list
SourceIds(entity_data) ==
    LET source_ids == TaggedOr(Get(entity_data, "source_id", Str(<<>>)),
                               Get(entity_data, "source_ids", Str(<<>>)))
    IN  IF source_ids.kind = "str"
        THEN (IF source_ids.v # <<>> THEN split(source_ids.v, GRAPH_FIELD_SEP)
              ELSE <<>>)
        ELSE IF source_ids.kind = "list" THEN source_ids.v
        ELSE <<>>

\* a or b, on Optional[str]
StrOr(a, b) == IF SeqTruthy(a) THEN a ELSE b

\* x in items, where x is an Optional[str] and None is in no list of str
OptIn(x, items) == x # None /\ ListIn(x[1], items)

_chunk_matches_filters(chunk_data, filters) ==
    LET chunk_file_path == GetOpt(chunk_data, "file_path")
        chunk_doc_id == StrOr(GetOpt(chunk_data, "full_doc_id"),
                              GetOpt(chunk_data, "doc_id"))
        timestamp == IntOr(GetOpt(chunk_data, "timestamp"),
                           GetOpt(chunk_data, "created_at"))
    IN  /\ SeqTruthy(filters.file_paths) =>
               OptIn(chunk_file_path, filters.file_paths[1])
        /\ SeqTruthy(filters.doc_ids) => OptIn(chunk_doc_id, filters.doc_ids[1])
        /\ DateInRange(timestamp, filters)

\* the fields result.update() adds; each holds an Optional (None when the
\* chunk record has no such key)
MetadataOf(chunk_data) ==
    [file_path |-> GetOpt(chunk_data, "file_path"),
     doc_id |-> StrOr(GetOpt(chunk_data, "full_doc_id"), GetOpt(chunk_data, "doc_id")),
     chunk_order_index |-> GetOpt(chunk_data, "chunk_order_index"),
     tokens |-> GetOpt(chunk_data, "tokens"),
     timestamp |-> IntOr(GetOpt(chunk_data, "timestamp"),
                         GetOpt(chunk_data, "created_at"))]

\* the content added whatever include_full_text says
_format_chunk_AlwaysContent(chunk_id, chunk_data, include_full_text, include_metadata) ==
    LET r1 == [chunk_id |-> chunk_id]
        r2 == Merge(r1, [content |-> Get(chunk_data, "content", <<>>)])
    IN  IF include_metadata THEN Merge(r2, MetadataOf(chunk_data)) ELSE r2

\* _format_chunk, lines 415-450
_format_chunk(chunk_id, chunk_data, include_full_text, include_metadata) ==
    LET r1 == [chunk_id |-> chunk_id]
        r2 == IF include_full_text
              THEN Merge(r1, [content |-> Get(chunk_data, "content", <<>>)])
              ELSE r1
    IN  IF include_metadata THEN Merge(r2, MetadataOf(chunk_data)) ELSE r2

\* chunk.get(sort_field) of a formatted chunk, as an Optional
FormattedGet(chunk, field) ==
    IF field \notin DOMAIN chunk THEN None
    ELSE IF field \in DOMAIN MetadataOf([chunk_id |-> <<>>]) THEN chunk[field]
    ELSE Some(chunk[field])

\* get_sort_key of _sort_chunks
ChunkSortKey(chunk, sort_field) ==
    LET value == FormattedGet(chunk, sort_field)
    IN  IF value = None
        THEN (IF sort_field \in {"timestamp", "created_at"} THEN Num(0)
              ELSE IF sort_field = "chunk_order_index" THEN Num(0)
              ELSE StrKey(<<>>))
        ELSE TypedValue(sort_field, value[1])

_sort_chunks(chunks, filters) ==
    LET sort_field == filters.sort_by
        reverse == (filters.sort_order = "desc")
        keyed == [i \in 1..Len(chunks) |->
                    [key |-> ChunkSortKey(chunks[i], sort_field), it |-> chunks[i]]]
    IN  IF SortRaises(keyed) THEN chunks ELSE sorted(keyed, reverse)

\* get_entity_documents, lines 355-370: the matching chunks, formatted and
\* sorted; chunks is the dict get_by_ids returned, as the list of its items
\* [chunk_id, chunk_data]
ProcessedChunks(chunks, filters) ==
    LET keep == {i \in 1..Len(chunks) :
                    /\ chunks[i].chunk_data # None
                    /\ _chunk_matches_filters(chunks[i].chunk_data[1], filters)}
        kept == SelectIdx(chunks, keep, 1)
        processed_chunks ==
            [i \in 1..Len(kept) |->
                _format_chunk(kept[i].chunk_id, kept[i].chunk_data[1],
                              filters.include_full_text, filters.include_metadata)]
    IN  _sort_chunks(processed_chunks, filters)

\* get_entity_documents from line 355 on
DocumentsOf(chunks, filters) ==
    _apply_pagination(ProcessedChunks(chunks, filters),
                      Some(filters.max_chunks), filters.offset)

-----------------------------------------------------------------------------
(* entity_query_service.py: statistics and related entities *)

\* the elements of a list, as a set
Elems(items) == {items[i] : i \in 1..Len(items)}

RECURSIVE SumOf(_, _)
SumOf(nums, n) == IF n = 0 THEN 0 ELSE nums[n] + SumOf(nums, n - 1)

\* entity_data.get("file_path", "") or entity_data.get("file_paths", ""),
\* then the isinstance tests that make it a list
EntityFilePaths(entity_data) ==
    LET file_paths == TaggedOr(Get(entity_data, "file_path", Str(<<>>)),
                               Get(entity_data, "file_paths", Str(<<>>)))
    IN  IF file_paths.kind = "str"
        THEN (IF file_paths.v # <<>> THEN split(file_paths.v, GRAPH_FIELD_SEP)
              ELSE <<>>)
        ELSE IF file_paths.kind = "list" THEN file_paths.v
        ELSE <<>>

\* entity_data, relationships and documents are Optionals. A dict is true
\* when it has a key, a list when it has an element. The mean is kept as the
\* exact fraction sum/count of tenths.
_compute_statistics_ZeroAverage(entity_data, relationships, documents) ==
    LET s1 == IF entity_data # None /\ DOMAIN entity_data[1] # {}
              THEN [total_source_chunks |-> Len(SourceIds(entity_data[1])),
                    unique_files |-> Cardinality(Elems(EntityFilePaths(entity_data[1])))]
              ELSE <<>>
        all_edges == IF relationships = None THEN <<>>
                     ELSE relationships[1].incoming \o relationships[1].outgoing
        weights == [i \in 1..Len(all_edges) |->
                       Get(all_edges[i], "weight", DEFAULT_EDGE_WEIGHT)]
        s2 == IF relationships # None
              THEN [total_relationships |-> relationships[1].total_count,
                    incoming_relationships |-> Len(relationships[1].incoming),
                    outgoing_relationships |-> Len(relationships[1].outgoing)]
              ELSE <<>>
        s3 == IF all_edges # <<>>
              THEN [avg_relationship_weight |->
                       [sum |-> SumOf(weights, Len(weights)), count |-> Len(weights)]]
              ELSE IF relationships # None
              THEN [avg_relationship_weight |-> [sum |-> 0, count |-> 1]]
              ELSE <<>>
        doc_ids == IF documents = None THEN {}
                   ELSE {FormattedGet(documents[1][i], "doc_id") :
                            i \in 1..Len(documents[1])}
        s4 == IF SeqTruthy(documents)
              THEN [returned_chunks |-> Len(documents[1]),
                    unique_documents |->
                        Cardinality({d \in doc_ids : SeqTruthy(d)})]
              ELSE <<>>
    IN  Merge(Merge(Merge(s1, s2), s3), s4)

\* _compute_statistics, lines 565-617
_compute_statistics(entity_data, relationships, documents) ==
    LET s1 == IF entity_data # None /\ DOMAIN entity_data[1] # {}
              THEN [total_source_chunks |-> Len(SourceIds(entity_data[1])),
                    unique_files |-> Cardinality(Elems(EntityFilePaths(entity_data[1])))]
              ELSE <<>>
        all_edges == IF relationships = None THEN <<>>
                     ELSE relationships[1].incoming \o relationships[1].outgoing
        weights == [i \in 1..Len(all_edges) |->
                       Get(all_edges[i], "weight", DEFAULT_EDGE_WEIGHT)]
        s2 == IF relationships # None
              THEN [total_relationships |-> relationships[1].total_count,
                    incoming_relationships |-> Len(relationships[1].incoming),
                    outgoing_relationships |-> Len(relationships[1].outgoing)]
              ELSE <<>>
        s3 == IF all_edges # <<>>
              THEN [avg_relationship_weight |->
                       [sum |-> SumOf(weights, Len(weights)), count |-> Len(weights)]]
              ELSE <<>>
        doc_ids == IF documents = None THEN {}
                   ELSE {FormattedGet(documents[1][i], "doc_id") :
                            i \in 1..Len(documents[1])}
        s4 == IF SeqTruthy(documents)
              THEN [returned_chunks |-> Len(documents[1]),
                    unique_documents |->
                        Cardinality({d \in doc_ids : SeqTruthy(d)})]
              ELSE <<>>
    IN  Merge(Merge(Merge(s1, s2), s3), s4)

\* sorted(list(related)), on a set of str
RECURSIVE SortedStrs(_)
SortedStrs(S) ==
    IF S = {} THEN <<>>
    ELSE LET m == CHOOSE x \in S : \A y \in S : ~StrLess(y, x)
         IN  <<m>> \o SortedStrs(S \ {m})

\* the queried entity not discarded
_extract_related_entities_KeepSelf(entity_name, relationships, max_entities) ==
    LET related == {relationships.incoming[i].source :
                        i \in 1..Len(relationships.incoming)}
                   \cup {relationships.outgoing[i].target :
                        i \in 1..Len(relationships.outgoing)}
        related_list == SortedStrs(related)
    IN  SubSeq(related_list, 1,
               IF max_entities < Len(related_list) THEN max_entities
               ELSE Len(related_list))

\* _extract_related_entities, lines 619-651
_extract_related_entities(entity_name, relationships, max_entities) ==
    LET related == {relationships.incoming[i].source :
                        i \in 1..Len(relationships.incoming)}
                   \cup {relationships.outgoing[i].target :
                        i \in 1..Len(relationships.outgoing)}
        related_list == SortedStrs(related \ {entity_name})
    IN  SubSeq(related_list, 1,
               IF max_entities < Len(related_list) THEN max_entities
               ELSE Len(related_list))

-----------------------------------------------------------------------------
(* The stores *)

\* graph.has_node(node_id), graph.get_node(node_id)
has_node(node_id) == node_id \in DOMAIN graph.nodes
get_node(node_id) ==
    IF node_id \in DOMAIN graph.nodes THEN Some(graph.nodes[node_id]) ELSE None

\* graph.get_node_edges(node_id): the (source, target) pairs that touch it
get_node_edges(node_id) ==
    LET touching == {i \in 1..Len(graph.edges) :
                        graph.edges[i].source = node_id
                        \/ graph.edges[i].target = node_id}
        es == SelectIdx(graph.edges, touching, 1)
    IN  [i \in 1..Len(es) |-> <<es[i].source, es[i].target>>]

\* graph.get_edge(source_id, target_id): the edge's record, or None
get_edge(source_id, target_id) ==
    LET hits == {i \in 1..Len(graph.edges) :
                    graph.edges[i].source = source_id
                    /\ graph.edges[i].target = target_id}
    IN  IF hits = {} THEN None ELSE graph.edges[MinOf(hits)].data

\* text_chunks.get_by_ids(ids): a dict, one item per distinct id, in the
\* order of the ids; an id the store does not hold maps to None
RECURSIVE Distinct(_, _)
Distinct(items, n) ==
    IF n = 0 THEN <<>>
    ELSE LET d == Distinct(items, n - 1)
         IN  IF ListIn(items[n], d) THEN d ELSE Append(d, items[n])

get_by_ids(ids) ==
    LET d == Distinct(ids, Len(ids))
    IN  [i \in 1..Len(d) |->
            [chunk_id |-> d[i],
             chunk_data |-> IF d[i] \in DOMAIN text_chunks
                            THEN Some(text_chunks[d[i]]) ELSE None]]

Call(fn, args) == calls' = Append(calls, [fn |-> fn, args |-> args])

-----------------------------------------------------------------------------
(* The operations *)

InitLoc ==
    [relationship_filters |-> None, document_filters |-> None,
     error |-> None, entity_data |-> None, all_edges |-> <<>>, i |-> 0,
     edges_with_data |-> <<>>, source_ids |-> <<>>,
     relationships |-> None, documents |-> None]

Goto(label, l) == pc' = label /\ loc' = l /\ UNCHANGED result

Return(value, l) == pc' = "done" /\ loc' = l /\ result' = Some(value)

Raise(error, l) ==
    pc' = "raised" /\ loc' = [l EXCEPT !.error = Some(error)] /\ UNCHANGED result

\* query_entity_full, lines 529-563: the truth tests of the result's sections
FullResult(entity_name, options, l) ==
    LET statistics == IF options.include_statistics
                      THEN Some(_compute_statistics(l.entity_data, l.relationships,
                                                    l.documents))
                      ELSE None
        related_entities ==
            IF options.compute_related_entities /\ l.relationships # None
            THEN Some(_extract_related_entities(entity_name, l.relationships[1],
                                                options.max_related_entities))
            ELSE None
        r1 == [entity_name |-> entity_name]
        r2 == IF l.entity_data # None /\ DOMAIN l.entity_data[1] # {}
              THEN Merge(r1, [entity |-> l.entity_data[1]]) ELSE r1
        r3 == IF l.relationships # None
              THEN Merge(r2, [relationships |-> l.relationships[1]]) ELSE r2
        r4 == IF SeqTruthy(l.documents)
              THEN Merge(r3, [documents |-> l.documents[1]]) ELSE r3
        r5 == IF statistics # None /\ DOMAIN statistics[1] # {}
              THEN Merge(r4, [statistics |-> statistics[1]]) ELSE r4
    IN  IF SeqTruthy(related_entities)
        THEN Merge(r5, [related_entities |-> related_entities[1]]) ELSE r5

FinishFull(l) == Return(Some(FullResult(req.entity_name, req.options, l)), l)

\* query_entity_full, lines 521-527, and what follows get_entity_documents
AfterDocuments(documents, l) ==
    IF req.op = "get_entity_documents" THEN Return(documents, l)
    ELSE FinishFull([l EXCEPT !.documents = Some(documents)])

\* query_entity_full, lines 513-527, and what follows get_entity_relationships
AfterRelationships(relationships, l) ==
    IF req.op = "get_entity_relationships" THEN Return(relationships, l)
    ELSE LET l2 == [l EXCEPT !.relationships = Some(relationships)]
         IN  IF req.options.include_documents THEN Goto("doc_get_node", l2)
             ELSE FinishFull(l2)

\* the Relationships stage entered whatever its toggle says
AfterDetails_AlwaysRelationships(l) == Goto("has_node", l)

\* query_entity_full, lines 513-527, once the Detail stage is over
AfterDetails(l) ==
    IF req.options.include_relationships THEN Goto("has_node", l)
    ELSE IF req.options.include_documents THEN Goto("doc_get_node", l)
    ELSE FinishFull(l)

\* EntityQueryOptions.__post_init__: TRUE when no ValueError is raised
EntityQueryOptions_post_init(self) == ~(self.max_related_entities < 1)

\* The caller builds the filter objects (their __post_init__ validates them)
\* and calls the operation, which runs up to its first await.
Construct ==
    /\ pc = "construct"
    /\ UNCHANGED <<graph, text_chunks, req, calls, suspended>>
    /\ LET rf == RelationshipFilters(IF req.relationship_filters = None THEN <<>>
                                     ELSE req.relationship_filters[1])
           df == DocumentFilters(IF req.document_filters = None THEN <<>>
                                 ELSE req.document_filters[1])
           l == [loc EXCEPT !.relationship_filters = Some(rf),
                            !.document_filters = Some(df)]
       IN  IF \/ ~RelationshipFilters_post_init(rf)
              \/ ~DocumentFilters_post_init(df)
              \/ (req.op = "query_entity_full"
                    /\ ~EntityQueryOptions_post_init(req.options))
           THEN Raise("ValueError", loc)
           ELSE CASE req.op = "get_entity_details" -> Goto("get_node", l)
                  [] req.op = "get_entity_relationships" -> Goto("has_node", l)
                  [] req.op = "get_entity_documents" -> Goto("doc_get_node", l)
                  [] req.op \in {"list_entities", "search_entities",
                                 "get_entity_types_summary"} ->
                        Goto("get_all_nodes", l)
                  [] req.op = "query_entity_full" ->
                        IF req.options.include_entity_details
                        THEN Goto("get_node", l) ELSE AfterDetails(l)

\* AfterGetNode without the "return None" of line 511
AfterGetNode_NoShortCircuit(entity_data, l) ==
    IF req.op = "get_entity_details" THEN Return(entity_data, l)
    ELSE AfterDetails(l)

\* get_entity_details and, in query_entity_full, lines 506-511: what the
\* awaited node lookup leads to
AfterGetNode(entity_data, l) ==
    IF req.op = "get_entity_details" THEN Return(entity_data, l)
    ELSE IF entity_data = None THEN Return(None, l)
    ELSE AfterDetails(l)

\* get_entity_details, called by the caller or by query_entity_full
GetNode ==
    /\ pc = "get_node"
    /\ UNCHANGED <<graph, text_chunks, req, suspended>>
    /\ Call("get_node", <<req.entity_name>>)
    /\ LET entity_data == get_node(req.entity_name)
       IN  AfterGetNode(entity_data, [loc EXCEPT !.entity_data = entity_data])

\* AfterHasNode without the early return of lines 87-89
AfterHasNode_NoCheck(exists, l) == Goto("get_node_edges", l)

\* get_entity_relationships, lines 86-89
AfterHasNode(exists, l) ==
    IF ~exists THEN AfterRelationships(EmptyRelationships, l)
    ELSE Goto("get_node_edges", l)

HasNode ==
    /\ pc = "has_node"
    /\ UNCHANGED <<graph, text_chunks, req, suspended>>
    /\ Call("has_node", <<req.entity_name>>)
    /\ AfterHasNode(has_node(req.entity_name), loc)

\* get_entity_relationships, lines 95-97
AfterGetNodeEdges(all_edges, l) ==
    IF all_edges = <<>> THEN AfterRelationships(EmptyRelationships, l)
    ELSE Goto("get_edge", [l EXCEPT !.all_edges = all_edges])

GetNodeEdges ==
    /\ pc = "get_node_edges"
    /\ UNCHANGED <<graph, text_chunks, req, suspended>>
    /\ Call("get_node_edges", <<req.entity_name>>)
    /\ AfterGetNodeEdges(get_node_edges(req.entity_name), loc)

\* get_entity_relationships, lines 101-147: the rest of the loop's turn for
\* edge i and, after the last edge, the rest of the function
AfterGetEdge(i, edge_data, l) ==
    LET source_id == l.all_edges[i][1]
        target_id == l.all_edges[i][2]
        edges_with_data ==
            IF edge_data # None /\ DOMAIN edge_data[1] # {}
            THEN Append(l.edges_with_data,
                        EdgeWithData(source_id, target_id, edge_data[1],
                                     req.entity_name))
            ELSE l.edges_with_data
        l2 == [l EXCEPT !.edges_with_data = edges_with_data, !.i = i]
    IN  IF i < Len(l.all_edges) THEN Goto("get_edge", l2)
        ELSE AfterRelationships(
                RelationshipsOf(edges_with_data, req.entity_name,
                                l.relationship_filters[1]), l2)

GetEdge ==
    /\ pc = "get_edge"
    /\ UNCHANGED <<graph, text_chunks, req, suspended>>
    /\ LET i == loc.i + 1
           source_id == loc.all_edges[i][1]
           target_id == loc.all_edges[i][2]
       IN  /\ Call("get_edge", <<source_id, target_id>>)
           /\ AfterGetEdge(i, get_edge(source_id, target_id), loc)

\* get_entity_documents, lines 333-350
AfterDocGetNode(entity_data, l) ==
    LET filters == l.document_filters[1]
        source_ids == IF entity_data = None THEN <<>>
                      ELSE SourceIds(entity_data[1])
        wanted == IF SeqTruthy(filters.chunk_ids)
                  THEN SelectIdx(source_ids,
                                 {i \in 1..Len(source_ids) :
                                     ListIn(source_ids[i], filters.chunk_ids[1])}, 1)
                  ELSE source_ids
    IN  IF entity_data = None \/ DOMAIN entity_data[1] = {}
        THEN AfterDocuments(<<>>, l)
        ELSE IF source_ids = <<>> THEN AfterDocuments(<<>>, l)
        ELSE Goto("get_by_ids", [l EXCEPT !.source_ids = wanted])

\* get_entity_documents, line 332: get_entity_details
DocGetNode ==
    /\ pc = "doc_get_node"
    /\ UNCHANGED <<graph, text_chunks, req, suspended>>
    /\ Call("get_node", <<req.entity_name>>)
    /\ AfterDocGetNode(get_node(req.entity_name), loc)

\* get_entity_documents, lines 353-376
GetByIds ==
    /\ pc = "get_by_ids"
    /\ UNCHANGED <<graph, text_chunks, req, suspended>>
    /\ Call("get_by_ids", <<loc.source_ids>>)
    /\ AfterDocuments(DocumentsOf(get_by_ids(loc.source_ids),
                                  loc.document_filters[1]), loc)

-----------------------------------------------------------------------------
(* entity_query_service.py: listing *)

\* raw node records as get_all_nodes returns them: a dict, or something else
Dict(v) == [kind |-> "dict", v |-> v]
NotADict == [kind |-> "other"]

\* node.get("id") or node.get("entity_name") or node.get("name")
CanonicalId(node) ==
    StrOr(StrOr(GetOpt(node, "id"), GetOpt(node, "entity_name")),
          GetOpt(node, "name"))

\* every raw record with a canonical id is kept, duplicates included
FirstOfId_NoDedup(all_nodes) ==
    {i \in 1..Len(all_nodes) :
        /\ all_nodes[i].kind = "dict"
        /\ DOMAIN all_nodes[i].v # {}
        /\ SeqTruthy(CanonicalId(all_nodes[i].v))}

\* list_entities, lines 684-693: the indices of the nodes that are kept, each
\* the first raw record of its canonical id
FirstOfId(all_nodes) ==
    {i \in 1..Len(all_nodes) :
        /\ all_nodes[i].kind = "dict"
        /\ DOMAIN all_nodes[i].v # {}
        /\ SeqTruthy(CanonicalId(all_nodes[i].v))
        /\ \A j \in 1..(i - 1) :
              (all_nodes[j].kind = "dict" /\ DOMAIN all_nodes[j].v # {})
                  => CanonicalId(all_nodes[j].v) # CanonicalId(all_nodes[i].v)}

\* the type filter alone
NodePassesFilters_NoNameFilter(node, entity_id, entity_types, name_pattern) ==
    SeqTruthy(entity_types) =>
        \E k \in 1..Len(entity_types[1]) :
            lower(Get(node, "entity_type", <<>>)) = lower(entity_types[1][k])

\* list_entities, lines 695-704: the type filter and the name filter
NodePassesFilters(node, entity_id, entity_types, name_pattern) ==
    /\ SeqTruthy(entity_types) =>
          \E k \in 1..Len(entity_types[1]) :
              lower(Get(node, "entity_type", <<>>)) = lower(entity_types[1][k])
    /\ SeqTruthy(name_pattern) => StrIn(lower(name_pattern[1]), lower(entity_id))

DESCRIPTION_LIMIT == 200

\* list_entities, lines 706-729
EntitySummary(node, entity_id) ==
    LET description == Get(node, "description", <<>>)
        source_ids == SourceIds(node)
        base == [entity_id |-> entity_id,
                 entity_type |-> GetOpt(node, "entity_type"),
                 description |-> SubSeq(description, 1,
                                        IF Len(description) < DESCRIPTION_LIMIT
                                        THEN Len(description) ELSE DESCRIPTION_LIMIT),
                 description_full_length |-> Len(description),
                 source_count |-> Cardinality({i \in 1..Len(source_ids) :
                                                  source_ids[i] # <<>>})]
    IN  IF "created_at" \in DOMAIN node
        THEN Merge(base, [created_at |-> node.created_at])
        ELSE IF "timestamp" \in DOMAIN node
        THEN Merge(base, [created_at |-> node.timestamp])
        ELSE base

\* e.get(sort_by, "") of an entity summary
SummarySortKey(e, sort_by) ==
    IF sort_by \notin DOMAIN e THEN StrKey(<<>>)
    ELSE IF sort_by = "entity_type"
    THEN (IF e.entity_type = None THEN [t |-> "none", k |-> 0]
          ELSE StrKey(e.entity_type[1]))
    ELSE IF sort_by \in {"created_at", "source_count", "description_full_length"}
    THEN Num(e[sort_by])
    ELSE StrKey(e[sort_by])

\* entities[offset:offset + limit], for offset >= 0 and limit >= 0
Window(items, offset, limit) ==
    SubSeq(items, offset + 1,
           IF offset + limit > Len(items) THEN Len(items) ELSE offset + limit)

\* the filters applied first, then the first record of each id kept
SortedEntities_FilterFirst(all_nodes, args) ==
    LET passing == {i \in 1..Len(all_nodes) :
                       /\ all_nodes[i].kind = "dict"
                       /\ DOMAIN all_nodes[i].v # {}
                       /\ SeqTruthy(CanonicalId(all_nodes[i].v))
                       /\ NodePassesFilters(all_nodes[i].v,
                                            CanonicalId(all_nodes[i].v)[1],
                                            args.entity_types, args.name_pattern)}
        keep == {i \in passing :
                    \A j \in passing :
                        CanonicalId(all_nodes[j].v) = CanonicalId(all_nodes[i].v)
                            => i <= j}
        kept == SelectIdx(all_nodes, keep, 1)
        entities == [i \in 1..Len(kept) |->
                        EntitySummary(kept[i].v, CanonicalId(kept[i].v)[1])]
        keyed == [i \in 1..Len(entities) |->
                    [key |-> SummarySortKey(entities[i], args.sort_by),
                     it |-> entities[i]]]
    IN  IF SortRaises(keyed) THEN entities
        ELSE sorted(keyed, lower(args.sort_order) = <<100, 101, 115, 99>>)

\* list_entities, lines 680-741: the summaries of the kept nodes, sorted
SortedEntities(all_nodes, args) ==
    LET first == FirstOfId(all_nodes)
        keep == {i \in first :
                    NodePassesFilters(all_nodes[i].v, CanonicalId(all_nodes[i].v)[1],
                                      args.entity_types, args.name_pattern)}
        kept == SelectIdx(all_nodes, keep, 1)
        entities == [i \in 1..Len(kept) |->
                        EntitySummary(kept[i].v, CanonicalId(kept[i].v)[1])]
        keyed == [i \in 1..Len(entities) |->
                    [key |-> SummarySortKey(entities[i], args.sort_by),
                     it |-> entities[i]]]
    IN  IF SortRaises(keyed) THEN entities
        ELSE sorted(keyed, lower(args.sort_order) = <<100, 101, 115, 99>>)

\* total_count taken after the slice
ListEntitiesOf_CountsPage(all_nodes, args) ==
    LET ordered == SortedEntities(all_nodes, args)
        page == Window(ordered, args.offset, args.limit)
    IN  [entities |-> page, total_count |-> Len(page),
         returned_count |-> Len(page), offset |-> args.offset,
         limit |-> args.limit,
         has_more |-> (args.offset + Len(page)) < Len(page)]

\* list_entities, lines 680-755, on the nodes get_all_nodes returned
ListEntitiesOf(all_nodes, args) ==
    LET ordered == SortedEntities(all_nodes, args)
        page == Window(ordered, args.offset, args.limit)
    IN  [entities |-> page, total_count |-> Len(ordered),
         returned_count |-> Len(page), offset |-> args.offset,
         limit |-> args.limit,
         has_more |-> (args.offset + Len(page)) < Len(ordered)]

\* the defaults of list_entities' parameters; "entity_id", "asc"
DefaultListArgs ==
    [entity_types |-> None, name_pattern |-> None, limit |-> 100, offset |-> 0,
     sort_by |-> "entity_id", sort_order |-> <<97, 115, 99>>]

\* list_entities, lines 756-766: the result when anything raised
EmptyListing(args) ==
    [entities |-> <<>>, total_count |-> 0, returned_count |-> 0,
     offset |-> args.offset, limit |-> args.limit, has_more |-> FALSE]

\* the empty listing with total_count left unset
list_entities_NoCountOnFailure(args) ==
    IF graph.all_nodes_raises
    THEN [entities |-> <<>>, returned_count |-> 0,
          offset |-> args.offset, limit |-> args.limit, has_more |-> FALSE]
    ELSE ListEntitiesOf(graph.all_nodes, args)

\* list_entities, lines 676-766, once get_all_nodes has returned or raised
list_entities(args) ==
    IF graph.all_nodes_raises THEN EmptyListing(args)
    ELSE ListEntitiesOf(graph.all_nodes, args)

\* s.startswith(prefix)
StartsWith(s, prefix) ==
    Len(prefix) <= Len(s) /\ SubSeq(s, 1, Len(prefix)) = prefix

\* the score with the substring test ahead of the prefix test
RelevanceScore_ContainsFirst(entity_id, query) ==
    LET entity_id_lower == lower(entity_id)
        query_lower == lower(query)
    IN  IF entity_id_lower = query_lower THEN 10
        ELSE IF StrIn(query_lower, entity_id_lower) THEN 5
        ELSE IF StartsWith(entity_id_lower, query_lower) THEN 8
        ELSE 3

\* search_entities, lines 801-809: the score in tenths
RelevanceScore(entity_id, query) ==
    LET entity_id_lower == lower(entity_id)
        query_lower == lower(query)
    IN  IF entity_id_lower = query_lower THEN 10
        ELSE IF StartsWith(entity_id_lower, query_lower) THEN 8
        ELSE IF StrIn(query_lower, entity_id_lower) THEN 5
        ELSE 3

\* the defaults of search_entities' parameters
DefaultSearchArgs == [query |-> <<>>, entity_types |-> None, limit |-> 20]

\* search_entities, lines 796-812: each entity with its relevance_score
WithRelevance(entities, query) ==
    [i \in 1..Len(entities) |->
        Merge(entities[i],
              [relevance_score |-> RelevanceScore(entities[i].entity_id, query)])]

\* search_entities, line 815: the stable sort by relevance_score, descending
SortByRelevance(entities) ==
    sorted([i \in 1..Len(entities) |->
               [key |-> Num(entities[i].relevance_score), it |-> entities[i]]],
           TRUE)

\* search_entities, lines 768-818
search_entities(args) ==
    SortByRelevance(
        WithRelevance(list_entities([DefaultListArgs EXCEPT
                                        !.entity_types = args.entity_types,
                                        !.name_pattern = Some(args.query),
                                        !.limit = args.limit]).entities,
                      args.query))

\* "unknown"
UNKNOWN_TYPE == <<117, 110, 107, 110, 111, 119, 110>>

\* get_entity_types_summary, lines 820-853: the dict type -> count
get_entity_types_summary ==
    IF graph.all_nodes_raises THEN <<>>
    ELSE LET all_nodes == graph.all_nodes
             first == FirstOfId(all_nodes)
             type(i) == Get(all_nodes[i].v, "entity_type", UNKNOWN_TYPE)
         IN  [t \in {type(i) : i \in first} |->
                 Cardinality({i \in first : type(i) = t})]

\* list_entities, search_entities and get_entity_types_summary: each awaits
\* get_all_nodes once
GetAllNodes ==
    /\ pc = "get_all_nodes"
    /\ UNCHANGED <<graph, text_chunks, req, suspended>>
    /\ Call("get_all_nodes", <<>>)
    /\ CASE req.op = "list_entities" -> Return(list_entities(req.list_args), loc)
         [] req.op = "search_entities" -> Return(search_entities(req.search_args), loc)
         [] req.op = "get_entity_types_summary" ->
               Return(get_entity_types_summary, loc)

-----------------------------------------------------------------------------
(* Requests and store contents *)

A == <<65>>
B == <<66>>
C == <<67>>
Z == <<90>>

DefaultOptions ==
    [include_entity_details |-> TRUE, include_relationships |-> TRUE,
     include_documents |-> TRUE, include_statistics |-> TRUE,
     compute_related_entities |-> FALSE, max_related_entities |-> 50]

Request(op, entity_name, rf, df, options) ==
    [op |-> op, entity_name |-> entity_name, relationship_filters |-> rf,
     document_filters |-> df, options |-> options, list_args |-> DefaultListArgs]

ListRequest(args) ==
    [Request("list_entities", <<>>, None, None, DefaultOptions)
        EXCEPT !.list_args = Merge(DefaultListArgs, args)]

SearchRequest(args) ==
    Merge(Request("search_entities", <<>>, None, None, DefaultOptions),
          [search_args |-> Merge(DefaultSearchArgs, args)])

SummaryRequest ==
    Request("get_entity_types_summary", <<>>, None, None, DefaultOptions)

InitWith(g, t, r) ==
    /\ graph = g
    /\ text_chunks = t
    /\ req = r
    /\ pc = "construct"
    /\ loc = InitLoc
    /\ calls = <<>>
    /\ result = None
    /\ suspended = <<>>

\* the lists without repetition of at most n elements of S
ListsUpTo(S, n) ==
    UNION {{q \in [1..k -> S] : \A i, j \in 1..k : q[i] = q[j] => i = j} :
              k \in 0..n}

\* s1 + "<SEP>" + s2
Joined(s1, s2) == s1 \o GRAPH_FIELD_SEP \o s2

\* chunk ids "x", "y", "w"; document ids "d", "e"; file paths "f", "g"
cx == <<120>>
cy == <<121>>
cw == <<119>>
dd == <<100>>
de == <<101>>
ff == <<102>>
fg == <<103>>

Edge(source, target, data) == [source |-> source, target |-> target, data |-> data]

MaxEdges == 3

\* the node records of the queried entity: source ids joined, as a list, none
NodesA ==
    {[entity_type |-> <<112>>, description |-> <<104, 105>>,
      source_id |-> Str(Joined(cx, cy)), file_path |-> Str(Joined(ff, fg))],
     [entity_type |-> <<112>>, source_ids |-> List(<<cy, cw, cx>>),
      file_paths |-> List(<<ff, ff>>)],
     [entity_type |-> <<111>>]}

NodeB == [entity_type |-> <<111>>, source_id |-> Str(cx)]

\* edges around A: incoming, outgoing, a self-loop, one whose record is gone
FlowEdgePool ==
    {Edge(B, A, Some([weight |-> 2])), Edge(A, C, Some([weight |-> 6])),
     Edge(A, A, Some([weight |-> 4])), Edge(C, A, None)}

FlowGraphs ==
    {[nodes |-> (A :> n) @@ (B :> NodeB), edges |-> es, all_nodes |-> <<>>,
      all_nodes_raises |-> FALSE] :
        n \in NodesA, es \in ListsUpTo(FlowEdgePool, MaxEdges)}

ChunkX == [content |-> <<104>>, file_path |-> ff, full_doc_id |-> dd,
           chunk_order_index |-> 0, tokens |-> 3, timestamp |-> 2]
ChunkY == [content |-> <<105>>, file_path |-> fg, doc_id |-> de,
           chunk_order_index |-> 1, tokens |-> 2, created_at |-> 1]

FlowChunks == {(cx :> ChunkX) @@ (cy :> ChunkY), (cy :> ChunkY)}

Booleans == {TRUE, FALSE}

FlowOptions ==
    {[include_entity_details |-> a, include_relationships |-> b,
      include_documents |-> c, include_statistics |-> d,
      compute_related_entities |-> e, max_related_entities |-> 1] :
        a \in Booleans, b \in Booleans, c \in Booleans, d \in Booleans,
        e \in Booleans}

FlowRequests ==
    {Request("get_entity_details", n, None, None, DefaultOptions) : n \in {A, Z}}
    \cup {Request("get_entity_relationships", n, rf, None, DefaultOptions) :
            n \in {A, Z}, rf \in {None, Some([limit |-> Some(1)])}}
    \cup {Request("get_entity_documents", n, None, df, DefaultOptions) :
            n \in {A, Z}, df \in {None, Some([max_chunks |-> 1])}}
    \cup {Request("query_entity_full", n, None, None, o) :
            n \in {A, Z}, o \in FlowOptions}

Init ==
    \E g \in FlowGraphs, t \in FlowChunks, r \in FlowRequests : InitWith(g, t, r)

Next ==
    \/ Construct
    \/ GetNode
    \/ HasNode
    \/ GetNodeEdges
    \/ GetEdge
    \/ DocGetNode
    \/ GetByIds

Spec == Init /\ [][Next]_vars

-----------------------------------------------------------------------------
(* Properties of the single-entity operations, checked under Spec *)

FullQuery == req.op = "query_entity_full"
Done == pc = "done"
NodeAbsent == get_node(req.entity_name) = None
CalledFns == {calls[i].fn : i \in 1..Len(calls)}

\* C1: query_entity_full with include_entity_details on an entity whose node
\* lookup returns None returns None, and its only store call is that lookup:
\* no relationship or document stage runs and no result is built. It returns
\* None in no other case.
C1_NotFoundShortCircuits ==
    FullQuery =>
        /\ (req.options.include_entity_details /\ NodeAbsent) =>
              /\ calls \in {<<>>, <<[fn |-> "get_node", args |-> <<req.entity_name>>]>>}
              /\ loc.relationships = None
              /\ loc.documents = None
              /\ calls # <<>> => (Done /\ result = Some(None))
        /\ result = Some(None) =>
              (req.options.include_entity_details /\ NodeAbsent)

C1_Witness ==
    /\ FullQuery
    /\ req.options.include_entity_details
    /\ req.options.include_relationships
    /\ NodeAbsent
    /\ Done
    /\ result = Some(None)
    /\ Len(calls) = 1

\* C2: query_entity_full on an entity the graph store does not know, with
\* include_entity_details off and relationships and documents on, returns a
\* result that holds an empty relationship section and an empty document
\* section.
C2_PartialResultHasEmptySections ==
    (/\ FullQuery
     /\ ~req.options.include_entity_details
     /\ req.options.include_relationships
     /\ req.options.include_documents
     /\ ~has_node(req.entity_name)
     /\ NodeAbsent
     /\ Done) =>
        /\ result # Some(None)
        /\ "relationships" \in DOMAIN result[1][1]
        /\ result[1][1].relationships = EmptyRelationships
        /\ "documents" \in DOMAIN result[1][1]
        /\ result[1][1].documents = <<>>

\* C8: for an entity without a node, the relationship resolver returns the
\* empty triple without asking for edges and the document resolver returns
\* the empty list without asking the chunk store; neither fails.
C8_AbsentEntityIsZeroResults ==
    /\ ~has_node(req.entity_name) =>
          /\ CalledFns \cap {"get_node_edges", "get_edge"} = {}
          /\ (req.op = "get_entity_relationships" /\ pc # "construct") =>
                \/ (pc = "has_node" /\ calls = <<>>)
                \/ (Done /\ result = Some(EmptyRelationships)
                      /\ calls = <<[fn |-> "has_node", args |-> <<req.entity_name>>]>>)
          /\ (FullQuery /\ loc.relationships # None) =>
                loc.relationships = Some(EmptyRelationships)
    /\ NodeAbsent =>
          /\ "get_by_ids" \notin CalledFns
          /\ (req.op = "get_entity_documents" /\ pc # "construct") =>
                \/ (pc = "doc_get_node" /\ calls = <<>>)
                \/ (Done /\ result = Some(<<>>)
                      /\ calls = <<[fn |-> "get_node", args |-> <<req.entity_name>>]>>)
          /\ (FullQuery /\ loc.documents # None) => loc.documents = Some(<<>>)

C8_Witness ==
    /\ req.op = "get_entity_relationships"
    /\ ~has_node(req.entity_name)
    /\ Done
    /\ result = Some(EmptyRelationships)
    /\ Len(calls) = 1

-----------------------------------------------------------------------------
(* Filter construction, checked under SpecFilters: requests whose filter
   arguments range over valid and invalid values *)

MaxPage == 2

\* weights in tenths: -0.1, 0.0, 0.5, 1.0, 1.2
WeightArgs == {0 - 1, 0, 5, 10, 12}
PageArgs == (0 - 1)..MaxPage

RelationshipFilterArgs ==
    {[min_weight |-> lo, max_weight |-> hi, limit |-> lim, offset |-> off] :
        lo \in WeightArgs, hi \in WeightArgs,
        lim \in {None} \cup {Some(n) : n \in PageArgs}, off \in PageArgs}

DocumentFilterArgs ==
    {[max_chunks |-> m, offset |-> off] : m \in PageArgs, off \in PageArgs}

FilterGraph ==
    [nodes |-> (A :> [entity_type |-> <<112>>, source_id |-> Str(Joined(cx, cy))])
               @@ (B :> NodeB),
     edges |-> <<Edge(B, A, Some([weight |-> 2])), Edge(A, C, Some([weight |-> 6]))>>,
     all_nodes |-> <<>>, all_nodes_raises |-> FALSE]

FilterRequests ==
    {Request("get_entity_relationships", A, Some(rf), None, DefaultOptions) :
        rf \in RelationshipFilterArgs}
    \cup {Request("get_entity_documents", A, None, Some(df), DefaultOptions) :
        df \in DocumentFilterArgs}
    \cup {Request("query_entity_full", A, Some(rf), Some(df), DefaultOptions) :
        rf \in {[min_weight |-> lo] : lo \in WeightArgs},
        df \in {[max_chunks |-> m] : m \in PageArgs}}

InitFilters ==
    \E r \in FilterRequests :
        InitWith(FilterGraph, (cx :> ChunkX) @@ (cy :> ChunkY), r)

SpecFilters == InitFilters /\ [][Next]_vars

RequestedRelationshipFilters ==
    RelationshipFilters(IF req.relationship_filters = None THEN <<>>
                        ELSE req.relationship_filters[1])

RequestedDocumentFilters ==
    DocumentFilters(IF req.document_filters = None THEN <<>>
                    ELSE req.document_filters[1])

ValidRelationshipFilters(f) ==
    /\ 0 <= f.min_weight
    /\ f.min_weight <= f.max_weight
    /\ f.max_weight <= 10
    /\ f.offset >= 0
    /\ (f.limit = None \/ f.limit[1] >= 1)

ValidDocumentFilters(f) == f.max_chunks >= 1 /\ f.offset >= 0

\* C3: a RelationshipFilters is constructed only if
\* 0 <= min_weight <= max_weight <= 1, offset >= 0 and limit is None or >= 1,
\* a DocumentFilters only if max_chunks >= 1 and offset >= 0; a violation
\* raises ValueError at construction, before any store call.
C3_FiltersValidatedBeforeStoreAccess ==
    LET rf == RequestedRelationshipFilters
        df == RequestedDocumentFilters
        valid == ValidRelationshipFilters(rf) /\ ValidDocumentFilters(df)
    IN  /\ pc \notin {"construct", "raised"} =>
              /\ valid
              /\ loc.relationship_filters = Some(rf)
              /\ loc.document_filters = Some(df)
        /\ ~valid =>
              /\ calls = <<>>
              /\ result = None
              /\ pc \in {"construct", "raised"}
        /\ pc = "raised" =>
              /\ ~valid
              /\ loc.error = Some("ValueError")
              /\ calls = <<>>

C3_Witness ==
    /\ req.op = "get_entity_relationships"
    /\ req.relationship_filters[1].min_weight = 12
    /\ req.relationship_filters[1].max_weight = 12
    /\ pc = "raised"
    /\ calls = <<>>

-----------------------------------------------------------------------------
(* The relationship resolver alone *)

NextRelationships ==
    \/ Construct
    \/ HasNode
    \/ GetNodeEdges
    \/ GetEdge

\* the graphs whose edges are at most n distinct pairs of pairs, in any
\* order, each with a record of data
EdgeLists(pairs, data, n) ==
    UNION {{[i \in 1..Len(q) |-> Edge(q[i][1], q[i][2], d[i])] :
                d \in [1..Len(q) -> data]} : q \in ListsUpTo(pairs, n)}

GraphOf(node, edges) ==
    [nodes |-> (A :> node) @@ (B :> NodeB), edges |-> edges, all_nodes |-> <<>>,
     all_nodes_raises |-> FALSE]

PlainNodeA == [entity_type |-> <<112>>, source_id |-> Str(Joined(cx, cy))]

RelationshipsRequest(args) ==
    Request("get_entity_relationships", A, Some(args), None, DefaultOptions)

RelationshipsDone == req.op = "get_entity_relationships" /\ Done

\* the edge (source, target) is in the returned list
Returned(list, source, target) ==
    \E k \in 1..Len(list) : list[k].source = source /\ list[k].target = target

ReturnedEitherWay(e) ==
    \/ Returned(result[1].incoming, e.source, e.target)
    \/ Returned(result[1].outgoing, e.source, e.target)

-----------------------------------------------------------------------------
(* The weight range, checked under SpecWeight: edges of every weight,
   filters of every range *)

\* 0.0, 0.3, 0.5, 1.0
WeightBounds == {0, 3, 5, 10}

\* no weight, or 0.0, 0.3, 0.5, 1.0, 1.2
WeightData ==
    {Some([keywords |-> <<107>>])}
    \cup {Some([weight |-> w]) : w \in WeightBounds \cup {12}}

WeightRequests ==
    {RelationshipsRequest([min_weight |-> b[1], max_weight |-> b[2]]) :
        b \in {c \in WeightBounds \X WeightBounds : c[1] <= c[2]}}

InitWeight ==
    \E es \in EdgeLists({<<B, A>>, <<A, C>>, <<A, A>>}, WeightData, MaxEdges),
       r \in WeightRequests :
        InitWith(GraphOf(PlainNodeA, es), <<>>, r)

SpecWeight == InitWeight /\ [][NextRelationships]_vars

\* C4: an edge passes the weight condition iff min_weight <= w <= max_weight,
\* both ends included, where w is 1.0 for a record without a weight. (Under
\* SpecWeight no other condition is set and nothing is paginated, so an edge
\* is returned iff it passes.)
C4_WeightRangeInclusive ==
    RelationshipsDone =>
        \A i \in 1..Len(graph.edges) :
            LET e == graph.edges[i]
                w == IF "weight" \in DOMAIN e.data[1] THEN e.data[1].weight ELSE 10
                lo == req.relationship_filters[1].min_weight
                hi == req.relationship_filters[1].max_weight
            IN  ReturnedEitherWay(e) <=> (lo <= w /\ w <= hi)

C4_Witness ==
    /\ RelationshipsDone
    /\ \E i, j \in 1..Len(graph.edges) :
          LET e == graph.edges[i]
              f == graph.edges[j]
          IN  /\ "weight" \in DOMAIN e.data[1]
              /\ e.data[1].weight = req.relationship_filters[1].min_weight
              /\ e.data[1].weight > 0
              /\ ReturnedEitherWay(e)
              /\ "weight" \notin DOMAIN f.data[1]
              /\ ReturnedEitherWay(f)

-----------------------------------------------------------------------------
(* Direction and pagination, checked under SpecPage: the three paginated
   operations with every direction, limit and offset *)

MaxChunks == 3
MaxNodes == 2

NextPage ==
    \/ Construct
    \/ HasNode
    \/ GetNodeEdges
    \/ GetEdge
    \/ DocGetNode
    \/ GetByIds
    \/ GetAllNodes

\* two edges into A, a self-loop, two edges out of A; weights 0.2 to 0.8
PageEdgePool ==
    {Edge(B, A, Some([weight |-> 2])), Edge(C, A, Some([weight |-> 6])),
     Edge(A, A, Some([weight |-> 6])), Edge(A, B, Some([weight |-> 4])),
     Edge(A, C, Some([weight |-> 8]))}

Directions == {"incoming", "outgoing", "both"}

PageRelationshipRequests ==
    {RelationshipsRequest([direction |-> d, limit |-> l, offset |-> o,
                           min_weight |-> w]) :
        d \in Directions, l \in {None} \cup {Some(n) : n \in 1..MaxPage},
        o \in 0..MaxPage, w \in {0, 5}}

ChunkW == [content |-> <<106>>, file_path |-> ff, full_doc_id |-> dd,
           chunk_order_index |-> 2, tokens |-> 1, timestamp |-> 3]

PageChunks == (cx :> ChunkX) @@ (cy :> ChunkY) @@ (cw :> ChunkW)

PageDocumentRequests ==
    {Request("get_entity_documents", A, None,
             Some([max_chunks |-> m, offset |-> o, sort_order |-> so,
                   file_paths |-> fp]), DefaultOptions) :
        m \in 1..MaxPage, o \in 0..MaxPage, so \in {"asc", "desc"},
        fp \in {None, Some(<<ff>>)}}

PageNodePool ==
    {Dict([id |-> A, entity_type |-> <<112>>]), Dict([id |-> B]),
     Dict([entity_name |-> C, entity_type |-> <<111>>]),
     Dict([name |-> A, entity_type |-> <<111>>]), NotADict}

\* limit and offset as the route admits them: limit >= 1, offset >= 0
PageListRequests ==
    {ListRequest([limit |-> l, offset |-> o, name_pattern |-> np,
                  sort_order |-> so]) :
        l \in 1..MaxPage, o \in 0..MaxPage, np \in {None, Some(<<97>>)},
        so \in {<<97, 115, 99>>, <<100, 101, 115, 99>>}}

InitPage ==
    \/ \E es \in ListsUpTo(PageEdgePool, MaxEdges), r \in PageRelationshipRequests :
          InitWith(GraphOf(PlainNodeA, es), <<>>, r)
    \/ \E ids \in ListsUpTo({cx, cy, cw}, MaxChunks), r \in PageDocumentRequests :
          InitWith(GraphOf([entity_type |-> <<112>>, source_ids |-> List(ids)],
                           <<>>),
                   PageChunks, r)
    \/ \E ns \in ListsUpTo(PageNodePool, MaxNodes), r \in PageListRequests :
          InitWith([GraphOf(PlainNodeA, <<>>) EXCEPT !.all_nodes = ns], <<>>, r)

SpecPage == InitPage /\ [][NextPage]_vars

\* items[offset : offset + limit], limit None meaning "to the end", written
\* out element by element
WindowOf(items, offset, limit) ==
    LET rest == IF Len(items) > offset THEN Len(items) - offset ELSE 0
        n == IF limit # None /\ limit[1] < rest THEN limit[1] ELSE rest
    IN  [i \in 1..n |-> items[offset + i]]

\* the lists of lines 116-132, from the edges the loop fetched
IncomingAll ==
    ProcessedEdges(loc.edges_with_data, req.entity_name, "incoming",
                   loc.relationship_filters[1])
OutgoingAll ==
    ProcessedEdges(loc.edges_with_data, req.entity_name, "outgoing",
                   loc.relationship_filters[1])

InList(list, e) == Returned(list, e.source, e.target)

\* C5: every fetched edge is classified into one direction, incoming iff its
\* target is the queried id (a self-loop is incoming), otherwise outgoing; a
\* list holds only edges of its direction; with direction INCOMING the
\* outgoing list is empty, with OUTGOING the incoming list is empty, and with
\* BOTH each matching edge is in exactly one of the two lists built at lines
\* 116-132 (and in at most one of the returned lists, exactly one when no
\* limit or offset cuts them).
C5_DirectionRelativeToQueriedEntity ==
    (RelationshipsDone /\ loc.all_edges # <<>>) =>
        LET f == loc.relationship_filters[1]
            unpaginated == f.limit = None /\ f.offset = 0
        IN  /\ Len(loc.edges_with_data) = Len(graph.edges)
            /\ f.direction = "incoming" => result[1].outgoing = <<>>
            /\ f.direction = "outgoing" => result[1].incoming = <<>>
            /\ \A i \in 1..Len(graph.edges) :
                  LET e == graph.edges[i]
                      d == loc.edges_with_data[i].direction
                      matching == f.min_weight <= e.data[1].weight
                  IN  /\ d \in {"incoming", "outgoing"}
                      /\ d = "incoming" <=> e.target = req.entity_name
                      /\ InList(IncomingAll, e) => d = "incoming"
                      /\ InList(OutgoingAll, e) => d = "outgoing"
                      /\ InList(result[1].incoming, e) => InList(IncomingAll, e)
                      /\ InList(result[1].outgoing, e) => InList(OutgoingAll, e)
                      /\ (f.direction = "both" /\ matching) =>
                            /\ InList(IncomingAll, e) # InList(OutgoingAll, e)
                            /\ unpaginated =>
                                  (InList(result[1].incoming, e)
                                      # InList(result[1].outgoing, e))

C5_Witness ==
    /\ RelationshipsDone
    /\ loc.relationship_filters[1].direction = "both"
    /\ Returned(result[1].incoming, A, A)
    /\ Returned(result[1].incoming, B, A)
    /\ Returned(result[1].outgoing, A, C)

C7_PaginationBounds ==
    /\ pc # "raised"
    /\ (RelationshipsDone /\ loc.all_edges # <<>>) =>
          LET f == loc.relationship_filters[1]
          IN  /\ f.limit # None =>
                    /\ Len(result[1].incoming) <= f.limit[1]
                    /\ Len(result[1].outgoing) <= f.limit[1]
              /\ f.offset >= Len(IncomingAll) => result[1].incoming = <<>>
              /\ f.offset >= Len(OutgoingAll) => result[1].outgoing = <<>>
    /\ (req.op = "get_entity_documents" /\ Done /\ loc.source_ids # <<>>) =>
          LET f == loc.document_filters[1]
              all == ProcessedChunks(get_by_ids(loc.source_ids), f)
          IN  /\ result[1] = WindowOf(all, f.offset, Some(f.max_chunks))
              /\ Len(result[1]) <= f.max_chunks
              /\ f.offset >= Len(all) => result[1] = <<>>
    /\ (req.op = "list_entities" /\ Done) =>
          LET a == req.list_args
              all == SortedEntities(graph.all_nodes, a)
          IN  /\ Len(result[1].entities) <= a.limit
              /\ a.offset >= Len(all) => result[1].entities = <<>>
              /\ result[1].entities = WindowOf(all, a.offset, Some(a.limit))

C7_Witness ==
    /\ req.op = "get_entity_documents"
    /\ Done
    /\ loc.document_filters[1].max_chunks = 1
    /\ loc.document_filters[1].offset = 1
    /\ Len(ProcessedChunks(get_by_ids(loc.source_ids), loc.document_filters[1])) = 2
    /\ Len(result[1]) = 1

-----------------------------------------------------------------------------
(* The date range, checked under SpecDate: one edge or one chunk with every
   timestamp, filters with every pair of bounds, 0 included *)

MaxTime == 2

NextResolvers ==
    \/ Construct
    \/ HasNode
    \/ GetNodeEdges
    \/ GetEdge
    \/ DocGetNode
    \/ GetByIds

TimeValues == 0..MaxTime

DateBounds == {None} \cup {Some(t) : t \in TimeValues}

\* the fields of a record that carry its time: none, timestamp, created_at
TimeFields ==
    {<<>>} \cup {[timestamp |-> t] : t \in TimeValues}
           \cup {[created_at |-> t] : t \in TimeValues}

DateArgs == {[date_from |-> a, date_to |-> b] : a \in DateBounds, b \in DateBounds}

InitDate ==
    \/ \E tf \in TimeFields, args \in DateArgs :
          InitWith(GraphOf(PlainNodeA,
                           <<Edge(B, A, Some(Merge([keywords |-> <<107>>], tf)))>>),
                   <<>>, RelationshipsRequest(args))
    \/ \E tf \in TimeFields, args \in DateArgs :
          InitWith(GraphOf([entity_type |-> <<112>>, source_id |-> Str(cx)], <<>>),
                   (cx :> Merge([content |-> <<104>>, file_path |-> ff], tf)),
                   Request("get_entity_documents", A, None, Some(args),
                           DefaultOptions))

SpecDate == InitDate /\ [][NextResolvers]_vars

HasTime(record) == "timestamp" \in DOMAIN record \/ "created_at" \in DOMAIN record

TimeOf(record) ==
    IF "timestamp" \in DOMAIN record THEN record.timestamp ELSE record.created_at

\* date_from <= t for a set date_from and t <= date_to for a set date_to
WithinDates(t, date_from, date_to) ==
    /\ date_from # None => date_from[1] <= t
    /\ date_to # None => t <= date_to[1]

\* C9: an edge or a chunk that has a timestamp t passes the date filter iff
\* date_from <= t for a set date_from and t <= date_to for a set date_to,
\* for every value of t and of the bounds, 0 included; a record with no
\* timestamp always passes. (Under SpecDate nothing else is filtered, so a
\* record is returned iff it passes.)
C9_DateRangeInclusive ==
    /\ (RelationshipsDone /\ loc.all_edges # <<>>) =>
          LET record == graph.edges[1].data[1]
              f == req.relationship_filters[1]
          IN  ReturnedEitherWay(graph.edges[1])
                  <=> (HasTime(record)
                          => WithinDates(TimeOf(record), f.date_from, f.date_to))
    /\ (req.op = "get_entity_documents" /\ Done) =>
          LET record == text_chunks[cx]
              f == req.document_filters[1]
          IN  (\E k \in 1..Len(result[1]) : result[1][k].chunk_id = cx)
                  <=> (HasTime(record)
                          => WithinDates(TimeOf(record), f.date_from, f.date_to))

-----------------------------------------------------------------------------
(* The list conditions, checked under SpecMatch: one edge with every shape of
   keywords, description and file_paths, filters with every list *)

\* keywords: none, "ab", "Ba"
MatchKeywords == {<<>>, [keywords |-> <<97, 98>>], [keywords |-> <<66, 97>>]}

\* description: none, "Ca"
MatchDescriptions == {<<>>, [description |-> <<67, 97>>]}

\* file_paths: none, "f<SEP>g", "g", ["f", "g"], []
MatchFilePaths ==
    {<<>>, [file_paths |-> Str(Joined(ff, fg))], [file_paths |-> Str(fg)],
     [file_paths |-> List(<<ff, fg>>)], [file_paths |-> List(<<>>)]}

\* relation_types: None, [], ["A"], ["x", "B"], ["c"]
MatchTypeLists ==
    {None, Some(<<>>), Some(<<<<65>>>>), Some(<<<<120>>, <<66>>>>), Some(<<<<99>>>>)}

\* keywords: None, ["CA"], ["x", "b"], ["a a"]
MatchKeywordLists ==
    {None, Some(<<<<67, 65>>>>), Some(<<<<120>>, <<98>>>>), Some(<<<<97, 32, 97>>>>)}

\* file_paths: None, [], ["f"], ["h", "g"]
MatchPathLists == {None, Some(<<>>), Some(<<ff>>), Some(<<<<104>>, fg>>)}

InitMatch ==
    \E k \in MatchKeywords, d \in MatchDescriptions, p \in MatchFilePaths,
       rt \in MatchTypeLists, kw \in MatchKeywordLists, fp \in MatchPathLists :
        InitWith(GraphOf(PlainNodeA,
                         <<Edge(B, A, Some(Merge(Merge([weight |-> 5], k),
                                                 Merge(d, p))))>>),
                 <<>>,
                 RelationshipsRequest([relation_types |-> rt, keywords |-> kw,
                                       file_paths |-> fp]))

SpecMatch == InitMatch /\ [][NextRelationships]_vars

\* one character with its case folded
Fold(c) == IF c >= 65 /\ c <= 90 THEN c + 32 ELSE c

\* needle occurs in hay, case ignored
ContainsFolded(needle, hay) ==
    \E o \in 0..(Len(hay) - Len(needle)) :
        \A j \in 1..Len(needle) : Fold(hay[o + j]) = Fold(needle[j])

\* needle occurs in hay
Contains(needle, hay) ==
    \E o \in 0..(Len(hay) - Len(needle)) :
        \A j \in 1..Len(needle) : hay[o + j] = needle[j]

\* path is one of the paths the field holds: an element of the list, or one
\* of the pieces of the string between delimiters
IsPathOf(path, field) ==
    IF field.kind = "list" THEN \E k \in 1..Len(field.v) : field.v[k] = path
    ELSE /\ ~Contains(GRAPH_FIELD_SEP, path)
         /\ Contains(GRAPH_FIELD_SEP \o path \o GRAPH_FIELD_SEP,
                     GRAPH_FIELD_SEP \o field.v \o GRAPH_FIELD_SEP)

\* a list condition is set when the list is given and has an element
IsSet(list) == list # None /\ list # Some(<<>>)

\* C10: an edge is returned, before pagination, iff every condition that is
\* set holds, each satisfied by any one element of its list: relation_types
\* by a type that the keywords field contains, keywords by a keyword that the
\* description and keywords fields taken together contain (both ignoring
\* case), file_paths by a path that is one of the edge's paths, stored as a
\* list or as one delimiter-joined string. A list that is not set imposes no
\* condition.
C10_EdgeMatchesAnyOfEachList ==
    (RelationshipsDone /\ loc.all_edges # <<>>) =>
        LET e == graph.edges[1]
            d == e.data[1]
            f == req.relationship_filters[1]
            text(field) == IF field \in DOMAIN d THEN d[field] ELSE <<>>
            together == text("description") \o <<32>> \o text("keywords")
            types == IsSet(f.relation_types) =>
                        \E k \in 1..Len(f.relation_types[1]) :
                            ContainsFolded(f.relation_types[1][k], text("keywords"))
            words == IsSet(f.keywords) =>
                        \E k \in 1..Len(f.keywords[1]) :
                            ContainsFolded(f.keywords[1][k], together)
            paths == IsSet(f.file_paths) =>
                        /\ "file_paths" \in DOMAIN d
                        /\ \E k \in 1..Len(f.file_paths[1]) :
                              IsPathOf(f.file_paths[1][k], d.file_paths)
        IN  ReturnedEitherWay(e) <=> (types /\ words /\ paths)

\* all three lists set, each satisfied by its second element only, the
\* edge's paths stored as one string
C10_Witness ==
    /\ RelationshipsDone
    /\ req.relationship_filters[1].relation_types = Some(<<<<120>>, <<66>>>>)
    /\ req.relationship_filters[1].keywords = Some(<<<<120>>, <<98>>>>)
    /\ req.relationship_filters[1].file_paths = Some(<<<<104>>, fg>>)
    /\ "file_paths" \in DOMAIN graph.edges[1].data[1]
    /\ graph.edges[1].data[1].file_paths = Str(Joined(ff, fg))
    /\ Returned(result[1].incoming, B, A)

-----------------------------------------------------------------------------
(* Sorting, checked under SpecSort: records with and without the sort field,
   every sort field and order, in the three operations that sort *)

\* edges around A: with and without weight, timestamp, description, tokens
SortEdgePool ==
    {Edge(B, A, Some([weight |-> 2, timestamp |-> 5, description |-> <<98>>])),
     Edge(C, A, Some([weight |-> 6, description |-> <<97>>])),
     Edge(A, A, Some([timestamp |-> 1, tokens |-> 4])),
     Edge(A, C, Some([weight |-> 6, timestamp |-> 5])),
     Edge(A, B, Some([weight |-> 4, tokens |-> 2]))}

SortOrders == {"asc", "desc"}

SortRelationshipRequests ==
    {RelationshipsRequest([sort_by |-> sb, sort_order |-> so]) :
        sb \in {"weight", "timestamp", "description", "tokens"},
        so \in SortOrders}

\* a chunk with no timestamp, no ordinal position and no token count
ChunkBare == [content |-> <<103>>, file_path |-> fg]

SortChunks == (cx :> ChunkX) @@ (cy :> ChunkY) @@ (cw :> ChunkBare)

SortDocumentRequests ==
    {Request("get_entity_documents", A, None,
             Some([sort_by |-> sb, sort_order |-> so, include_metadata |-> im,
                   offset |-> o]),
             DefaultOptions) :
        sb \in {"timestamp", "chunk_order_index", "tokens", "content", "chunk_id"},
        so \in SortOrders, im \in Booleans, o \in {0, 1}}

SortNodePool ==
    {Dict([id |-> A, entity_type |-> <<112>>, created_at |-> 3]),
     Dict([id |-> B]),
     Dict([id |-> C, entity_type |-> <<111>>, created_at |-> 1])}

SortListRequests ==
    {ListRequest([sort_by |-> sb, sort_order |-> so, limit |-> l]) :
        sb \in {"entity_id", "entity_type", "created_at"},
        so \in {<<97, 115, 99>>, <<100, 101, 115, 99>>, <<68, 69, 83, 67>>},
        l \in {1, 100}}

InitSort ==
    \/ \E es \in ListsUpTo(SortEdgePool, MaxEdges), r \in SortRelationshipRequests :
          InitWith(GraphOf(PlainNodeA, es), <<>>, r)
    \/ \E ids \in ListsUpTo({cx, cy, cw}, MaxChunks), r \in SortDocumentRequests :
          InitWith(GraphOf([entity_type |-> <<112>>, source_ids |-> List(ids)],
                           <<>>),
                   SortChunks, r)
    \/ \E ns \in ListsUpTo(SortNodePool, MaxNodes), r \in SortListRequests :
          InitWith([GraphOf(PlainNodeA, <<>>) EXCEPT !.all_nodes = ns], <<>>, r)

SpecSort == InitSort /\ [][NextPage]_vars

DocumentsDone == req.op = "get_entity_documents" /\ Done

\* the value a returned edge is ordered by: its own, or the default
EdgeOrderValue(edge, field) ==
    IF field \in DOMAIN edge THEN edge[field]
    ELSE IF field \in {"weight", "timestamp", "created_at"} THEN 0
    ELSE <<>>

\* the value a returned chunk is ordered by: its own, or the default
ChunkOrderValue(chunk, field) ==
    IF field \in DOMAIN chunk /\ FormattedGet(chunk, field) # None
    THEN FormattedGet(chunk, field)[1]
    ELSE IF field \in {"timestamp", "created_at", "chunk_order_index"} THEN 0
    ELSE <<>>

\* the default of the field is of the type of the field's values
DefaultFits(field, numeric_defaults) ==
    NumericField(field) <=> field \in numeric_defaults

\* a comes no later than b in the requested order
InOrder(a, b, field, order) ==
    LET less(x, y) == IF NumericField(field) THEN x < y ELSE StrLess(x, y)
    IN  IF order = "asc" THEN ~less(b, a) ELSE ~less(a, b)

\* some record has the field, some record lacks it, and the default is of
\* another type than the field's values: the sort keys cannot be compared
Incomparable(has, field, numeric_defaults) ==
    /\ ~DefaultFits(field, numeric_defaults)
    /\ \E i, j \in 1..Len(has) : has[i] /\ ~has[j]

\* the stored edges of one direction, in the order the store gave them
StoredEdges(direction) ==
    SelectIdx(graph.edges,
              {i \in 1..Len(graph.edges) :
                  (graph.edges[i].target = req.entity_name) <=> direction = "incoming"},
              1)

\* the values are ordered; any order will do when no record has the field
\* (they all hold the default)
OrderedBy(values, has, field, order) ==
    IF \A i \in 1..Len(has) : ~has[i] THEN TRUE
    ELSE \A k \in 1..(Len(values) - 1) :
            InOrder(values[k], values[k + 1], field, order)

EdgeDefaults == {"weight", "timestamp", "created_at"}
ChunkDefaults == {"timestamp", "created_at", "chunk_order_index"}

\* the sort keys of the stored edges of one direction cannot be compared
EdgeSortFails(direction) ==
    LET stored == StoredEdges(direction)
        field == loc.relationship_filters[1].sort_by
    IN  Incomparable([k \in 1..Len(stored) |-> field \in DOMAIN stored[k].data[1]],
                     field, EdgeDefaults)

\* the sort keys of the requested chunks cannot be compared
ChunkSortFails ==
    LET f == loc.document_filters[1]
        ids == loc.source_ids
    IN  Incomparable([k \in 1..Len(ids) |->
                         /\ f.include_metadata
                         /\ f.sort_by \in DOMAIN MetadataOf(text_chunks[ids[k]])
                         /\ MetadataOf(text_chunks[ids[k]])[f.sort_by] # None],
                     f.sort_by, ChunkDefaults)

EdgesOrdered(list) ==
    LET f == loc.relationship_filters[1]
    IN  OrderedBy([k \in 1..Len(list) |-> EdgeOrderValue(list[k], f.sort_by)],
                  [k \in 1..Len(list) |-> f.sort_by \in DOMAIN list[k]],
                  f.sort_by, f.sort_order)

ChunksOrdered(list) ==
    LET f == loc.document_filters[1]
    IN  OrderedBy([k \in 1..Len(list) |-> ChunkOrderValue(list[k], f.sort_by)],
                  [k \in 1..Len(list) |->
                      f.sort_by \in DOMAIN list[k]
                          /\ FormattedGet(list[k], f.sort_by) # None],
                  f.sort_by, f.sort_order)

InStoredOrder(list, direction) ==
    LET stored == StoredEdges(direction)
    IN  /\ Len(list) = Len(stored)
        /\ \A k \in 1..Len(list) :
              list[k].source = stored[k].source /\ list[k].target = stored[k].target

\* the raw nodes that list_entities keeps, in stored order (no node of
\* SortNodePool is dropped)
StoredIds == [k \in 1..Len(graph.all_nodes) |-> graph.all_nodes[k].v.id]

\* C12: a failing sort aborts nothing: when the sort keys cannot be compared,
\* get_entity_relationships, get_entity_documents and list_entities return
\* the filtered records in their order before the sort, paginated as usual.
C12_SortFailureFallsBackToUnsorted ==
    /\ pc # "raised"
    /\ (RelationshipsDone /\ loc.all_edges # <<>>) =>
          /\ EdgeSortFails("incoming") => InStoredOrder(result[1].incoming, "incoming")
          /\ EdgeSortFails("outgoing") => InStoredOrder(result[1].outgoing, "outgoing")
    /\ (DocumentsDone /\ loc.source_ids # <<>>) =>
          LET f == loc.document_filters[1]
          IN  ChunkSortFails
                  => [k \in 1..Len(result[1]) |-> result[1][k].chunk_id]
                         = WindowOf(loc.source_ids, f.offset, Some(f.max_chunks))
    /\ (req.op = "list_entities" /\ Done) =>
          LET a == req.list_args
              nodes == graph.all_nodes
              failed ==
                  /\ Len(nodes) > 1
                  /\ \/ /\ a.sort_by = "created_at"
                        /\ \E i, j \in 1..Len(nodes) :
                              /\ "created_at" \in DOMAIN nodes[i].v
                              /\ "created_at" \notin DOMAIN nodes[j].v
                     \/ /\ a.sort_by = "entity_type"
                        /\ \E i \in 1..Len(nodes) :
                              "entity_type" \notin DOMAIN nodes[i].v
          IN  failed =>
                  /\ [k \in 1..Len(result[1].entities) |->
                         result[1].entities[k].entity_id]
                        = WindowOf(StoredIds, a.offset, Some(a.limit))
                  /\ result[1].total_count = Len(nodes)

\* sorted by tokens, descending, the edge without tokens stays before the
\* edge that has tokens, as stored
C12_Witness ==
    /\ RelationshipsDone
    /\ loc.relationship_filters[1].sort_by = "tokens"
    /\ loc.relationship_filters[1].sort_order = "desc"
    /\ Len(result[1].incoming) = 2
    /\ result[1].incoming[1].source = B
    /\ "tokens" \notin DOMAIN result[1].incoming[1]
    /\ result[1].incoming[2].source = A
    /\ "tokens" \in DOMAIN result[1].incoming[2]

-----------------------------------------------------------------------------
(* The document resolver alone, checked under SpecDocs: source ids as a
   joined string and as a list, ids the store does not hold, every filter *)

NextDocuments ==
    \/ Construct
    \/ DocGetNode
    \/ GetByIds

\* "z", an id of no chunk
cz == <<122>>

\* a chunk of document "e" with timestamp 0
ChunkZero == [content |-> <<106>>, file_path |-> ff, doc_id |-> de,
              chunk_order_index |-> 2, tokens |-> 1, timestamp |-> 0]

DocsChunks == (cx :> ChunkX) @@ (cy :> ChunkY) @@ (cw :> ChunkZero)

DocsNodes ==
    {[entity_type |-> <<112>>, source_id |-> Str(Joined(cx, cy))],
     [entity_type |-> <<112>>, source_ids |-> List(<<cy, cw, cx>>)],
     [entity_type |-> <<112>>, source_id |-> Str(Joined(Joined(cw, cz), cx))]}

DocsFilterArgs ==
    {[chunk_ids |-> c, file_paths |-> fp, doc_ids |-> d, date_from |-> a,
      date_to |-> b, include_full_text |-> t, include_metadata |-> m] :
        c \in {None, Some(<<>>), Some(<<cx, cw, cz>>)},
        fp \in {None, Some(<<ff>>)}, d \in {None, Some(<<de>>)},
        a \in {None, Some(0), Some(2)}, b \in {None, Some(0), Some(1)},
        t \in Booleans, m \in Booleans}

InitDocs ==
    \E n \in DocsNodes, args \in DocsFilterArgs :
        InitWith(GraphOf(n, <<>>), DocsChunks,
                 Request("get_entity_documents", A, None, Some(args),
                         DefaultOptions))

SpecDocs == InitDocs /\ [][NextDocuments]_vars

Range(list) == {list[k] : k \in 1..Len(list)}

\* the ids the node record names, as a set: the pieces of the joined string,
\* or the elements of the list
SourceIdSet(node) ==
    IF "source_id" \in DOMAIN node
    THEN {id \in {cx, cy, cw, cz} : IsPathOf(id, node.source_id)}
    ELSE Range(node.source_ids.v)

\* full_doc_id, or doc_id when there is none
ParentDocument(chunk) ==
    IF "full_doc_id" \in DOMAIN chunk /\ chunk.full_doc_id # <<>>
    THEN Some(chunk.full_doc_id)
    ELSE IF "doc_id" \in DOMAIN chunk THEN Some(chunk.doc_id) ELSE None

\* the ids get_entity_documents may ask the chunk store for
Requestable ==
    LET f == req.document_filters[1]
        named == SourceIdSet(graph.nodes[req.entity_name])
    IN  IF IsSet(f.chunk_ids) THEN named \cap Range(f.chunk_ids[1]) ELSE named

\* C13: get_entity_documents asks the chunk store only for ids that are among
\* the entity's source ids and, when chunk_ids is given, in chunk_ids; before
\* pagination it returns exactly the requested chunks that the store holds
\* and that pass the file_paths allow-list, the doc_ids allow-list on the
\* parent document id, and the date filter, whichever are set.
C13_DocumentsAreRequestedResolvedAndMatching ==
    /\ \A k \in 1..Len(calls) :
          calls[k].fn = "get_by_ids" => Range(calls[k].args[1]) = Requestable
    /\ DocumentsDone =>
          LET f == req.document_filters[1]
              passes(id) ==
                  LET chunk == text_chunks[id]
                  IN  /\ IsSet(f.file_paths) =>
                            chunk.file_path \in Range(f.file_paths[1])
                      /\ IsSet(f.doc_ids) =>
                            /\ ParentDocument(chunk) # None
                            /\ ParentDocument(chunk)[1] \in Range(f.doc_ids[1])
                      /\ HasTime(chunk) =>
                            WithinDates(TimeOf(chunk), f.date_from, f.date_to)
          IN  {result[1][k].chunk_id : k \in 1..Len(result[1])}
                  = {id \in Requestable \cap DOMAIN text_chunks : passes(id)}

MetadataFields == {"file_path", "doc_id", "chunk_order_index", "tokens", "timestamp"}

\* C14: every returned chunk carries its chunk_id; it carries content iff
\* include_full_text, and the five metadata fields (file path, doc id,
\* ordinal position, token count, timestamp) iff include_metadata.
C14_ChunkFieldsFollowToggles ==
    DocumentsDone =>
        \A k \in 1..Len(result[1]) :
            LET r == result[1][k]
                f == req.document_filters[1]
            IN  /\ "chunk_id" \in DOMAIN r
                /\ r.chunk_id \in DOMAIN text_chunks
                /\ "content" \in DOMAIN r <=> f.include_full_text
                /\ f.include_full_text => r.content = text_chunks[r.chunk_id].content
                /\ \A m \in MetadataFields : m \in DOMAIN r <=> f.include_metadata
                /\ f.include_metadata =>
                      /\ r.file_path = Some(text_chunks[r.chunk_id].file_path)
                      /\ r.doc_id = ParentDocument(text_chunks[r.chunk_id])

\* chunks returned with metadata and without content
C14_Witness ==
    /\ DocumentsDone
    /\ ~req.document_filters[1].include_full_text
    /\ req.document_filters[1].include_metadata
    /\ Len(result[1]) = 3

-----------------------------------------------------------------------------
(* The full query, checked under SpecFull: every stage on, with filters on
   both resolvers, statistics and related entities *)

MaxRelated == 2

\* edges around A with weights 0.2, 0.4, 0.6 and one without a weight
FullEdgePool ==
    {Edge(B, A, Some([weight |-> 2])), Edge(A, C, Some([weight |-> 4])),
     Edge(A, A, Some([weight |-> 6])), Edge(C, A, Some([keywords |-> <<107>>]))}

FullNodes ==
    {[entity_type |-> <<112>>, source_ids |-> List(<<cx, cy, cw>>)],
     [entity_type |-> <<112>>, source_id |-> Str(cy)],
     [entity_type |-> <<112>>]}

FullRelationshipArgs ==
    {None, Some([limit |-> Some(1)]), Some([min_weight |-> 5]),
     Some([direction |-> "outgoing"])}

FullDocumentArgs ==
    {None, Some([include_metadata |-> FALSE]), Some([max_chunks |-> 1]),
     Some([doc_ids |-> Some(<<de>>)])}

FullRequests ==
    {Request("query_entity_full", A, rf, df,
             [DefaultOptions EXCEPT !.compute_related_entities = TRUE,
                                    !.max_related_entities = m]) :
        rf \in FullRelationshipArgs, df \in FullDocumentArgs, m \in 1..MaxRelated}

InitFull ==
    \E n \in FullNodes, es \in ListsUpTo(FullEdgePool, MaxEdges), r \in FullRequests :
        InitWith(GraphOf(n, es), DocsChunks, r)

SpecFull == InitFull /\ [][Next]_vars

\* a full query has returned a result
FullDone == FullQuery /\ Done /\ result[1] # None

FullResultOf == result[1][1]

ReturnedEdges == FullResultOf.relationships.incoming \o FullResultOf.relationships.outgoing

\* C15: the statistics hold avg_relationship_weight = (sum of the weights of
\* the returned incoming and outgoing edges) / (their number), an edge
\* without a weight counting 1.0; weights 0.2, 0.4, 0.6 give 0.4; with no
\* returned edge the key is absent, not 0.
C15_AverageWeightIsMeanOrAbsent ==
    FullDone =>
        LET st == FullResultOf.statistics
            w == [k \in 1..Len(ReturnedEdges) |->
                     IF "weight" \in DOMAIN ReturnedEdges[k]
                     THEN ReturnedEdges[k].weight ELSE 10]
        IN  IF ReturnedEdges = <<>>
            THEN "avg_relationship_weight" \notin DOMAIN st
            ELSE /\ "avg_relationship_weight" \in DOMAIN st
                 /\ st.avg_relationship_weight.count = Len(w)
                 /\ st.avg_relationship_weight.sum = SumOf(w, Len(w))
                 /\ st.avg_relationship_weight.count > 0

\* weights 0.2, 0.4, 0.6: the mean is 1.2 / 3 = 0.4
C15_Witness ==
    /\ FullDone
    /\ {ReturnedEdges[k].weight : k \in {j \in 1..Len(ReturnedEdges) :
                                            "weight" \in DOMAIN ReturnedEdges[j]}}
          = {2, 4, 6}
    /\ Len(ReturnedEdges) = 3
    /\ FullResultOf.statistics.avg_relationship_weight = [sum |-> 12, count |-> 3]

\* C16: when a full query resolves documents and computes statistics,
\* returned_chunks is the number of chunks in the resolved document list and
\* unique_documents the number of distinct parent-document ids among them,
\* whatever the DocumentFilters are, include_metadata = false included.
C16_ChunkCountsMatchDocuments ==
    (FullDone /\ "documents" \in DOMAIN FullResultOf) =>
        LET st == FullResultOf.statistics
            docs == FullResultOf.documents
            parents == {ParentDocument(text_chunks[docs[k].chunk_id]) :
                           k \in 1..Len(docs)} \ {None}
        IN  /\ "returned_chunks" \in DOMAIN st
            /\ st.returned_chunks = Len(docs)
            /\ "unique_documents" \in DOMAIN st
            /\ st.unique_documents = Cardinality(parents)

\* C17: the related-entity list is the neighbour ids of the resolved
\* relationships (source of each incoming edge, target of each outgoing
\* edge) without the queried entity, ascending, cut to the first
\* max_related_entities: no duplicate, never the queried entity (even with a
\* self-loop), never more than max_related_entities elements.
C17_RelatedEntitiesSortedDistinctBounded ==
    FullDone =>
        LET rel == FullResultOf.relationships
            neighbours == ({rel.incoming[k].source : k \in 1..Len(rel.incoming)}
                           \cup {rel.outgoing[k].target : k \in 1..Len(rel.outgoing)})
                          \ {req.entity_name}
            m == req.options.max_related_entities
            list == IF "related_entities" \in DOMAIN FullResultOf
                    THEN FullResultOf.related_entities ELSE <<>>
        IN  /\ Range(list) \subseteq neighbours
            /\ req.entity_name \notin Range(list)
            /\ Len(list) <= m
            /\ Len(list) = IF Cardinality(neighbours) < m
                           THEN Cardinality(neighbours) ELSE m
            /\ \A k \in 1..(Len(list) - 1) : StrLess(list[k], list[k + 1])
            /\ \A x \in neighbours \ Range(list) :
                  \A k \in 1..Len(list) : StrLess(list[k], x)

\* a self-loop among the relationships, two neighbours, one returned
C17_Witness ==
    /\ FullDone
    /\ Returned(FullResultOf.relationships.incoming, A, A)
    /\ Returned(FullResultOf.relationships.incoming, C, A)
    /\ Returned(FullResultOf.relationships.incoming, B, A)
    /\ req.options.max_related_entities = 1
    /\ "related_entities" \in DOMAIN FullResultOf
    /\ FullResultOf.related_entities = <<B>>

-----------------------------------------------------------------------------
\* The listing operations over raw node records with duplicates

MaxRaw == 3

NextList ==
    \/ Construct
    \/ GetAllNodes

\* raw node records: the same canonical id through different fields, an empty
\* id field, a record without any id, an empty dict
ListNodePool ==
    {Dict([id |-> A, entity_type |-> <<112>>]),
     Dict([entity_name |-> A, entity_type |-> <<79>>]),
     Dict([id |-> <<>>, name |-> <<97, 66>>]),
     Dict([id |-> <<66, 97>>, entity_name |-> A, entity_type |-> <<111>>]),
     Dict([name |-> <<>>, entity_type |-> <<112>>]),
     Dict(<<>>)}

RawNodeLists == UNION {[1..k -> ListNodePool] : k \in 0..MaxRaw}

ListingRequests ==
    {ListRequest([entity_types |-> et, name_pattern |-> np, limit |-> l,
                  offset |-> o]) :
        et \in {None, Some(<<<<111>>>>), Some(<<<<80>>, <<120>>>>)},
        np \in {None, Some(<<97>>)}, l \in {1, MaxRaw}, o \in {0, 1}}

SearchRequests ==
    {SearchRequest([query |-> q, limit |-> l]) :
        q \in {<<97>>, <<97, 98>>, <<98>>}, l \in {1, MaxRaw}}

InitList ==
    \E ns \in RawNodeLists, raises \in Booleans,
       r \in ListingRequests \cup SearchRequests \cup {SummaryRequest} :
        InitWith([GraphOf(PlainNodeA, <<>>) EXCEPT !.all_nodes = ns,
                                                    !.all_nodes_raises = raises],
                 <<>>, r)

SpecList == InitList /\ [][NextList]_vars

ListDone == req.op = "list_entities" /\ Done

\* the first non-empty of a raw record's id, entity_name and name; <<>> if none
RawId(node) ==
    IF "id" \in DOMAIN node /\ node.id # <<>> THEN node.id
    ELSE IF "entity_name" \in DOMAIN node /\ node.entity_name # <<>>
    THEN node.entity_name
    ELSE IF "name" \in DOMAIN node /\ node.name # <<>> THEN node.name
    ELSE <<>>

\* the positions of the raw records that are dicts
RawDicts == {i \in 1..Len(graph.all_nodes) : graph.all_nodes[i].kind = "dict"}

\* the canonical ids the raw records resolve to
RawIds == {RawId(graph.all_nodes[i].v) : i \in RawDicts} \ {<<>>}

Unfiltered ==
    /\ ~SeqTruthy(req.list_args.entity_types)
    /\ ~SeqTruthy(req.list_args.name_pattern)

\* C18: list_entities resolves the canonical id as the first non-empty of id,
\* entity_name and name and deduplicates by it: no canonical id is returned
\* twice, every returned id is the canonical id of a raw record, total_count
\* counts no id twice, and an unfiltered listing whose window covers all
\* results holds each canonical id exactly once.
C18_ListingDeduplicatesByCanonicalId ==
    ListDone =>
        LET r == result[1]
            ids == {r.entities[i].entity_id : i \in 1..Len(r.entities)}
        IN  /\ \A i, j \in 1..Len(r.entities) :
                  r.entities[i].entity_id = r.entities[j].entity_id => i = j
            /\ ids \subseteq RawIds
            /\ r.total_count <= Cardinality(RawIds)
            /\ (/\ ~graph.all_nodes_raises
                /\ Unfiltered
                /\ req.list_args.offset = 0
                /\ req.list_args.limit >= r.total_count)
                  => /\ ids = RawIds
                     /\ Len(r.entities) = Cardinality(RawIds)
                     /\ r.total_count = Cardinality(RawIds)

\* two raw records resolve to one id through different fields and the
\* covering unfiltered listing holds it once
C18_Witness ==
    /\ ListDone
    /\ ~graph.all_nodes_raises
    /\ Unfiltered
    /\ req.list_args.offset = 0
    /\ req.list_args.limit >= result[1].total_count
    /\ \E i, j \in RawDicts :
          /\ i < j
          /\ "id" \in DOMAIN graph.all_nodes[i].v
          /\ "id" \notin DOMAIN graph.all_nodes[j].v
          /\ RawId(graph.all_nodes[i].v) = RawId(graph.all_nodes[j].v)
          /\ RawId(graph.all_nodes[i].v) # <<>>
          /\ Cardinality({k \in 1..Len(result[1].entities) :
                result[1].entities[k].entity_id = RawId(graph.all_nodes[i].v)}) = 1
    /\ Len(result[1].entities) = 2

FoldStr(s) == [i \in 1..Len(s) |-> Fold(s[i])]

\* the first raw record that resolves to the id
FirstRecord(id) ==
    graph.all_nodes[CHOOSE i \in RawDicts :
        /\ RawId(graph.all_nodes[i].v) = id
        /\ \A j \in RawDicts : RawId(graph.all_nodes[j].v) = id => i <= j].v

TypeOf(node) == IF "entity_type" \in DOMAIN node THEN node.entity_type ELSE <<>>

\* the deduplicated ids whose record passes the requested filters
PassingIds ==
    LET et == req.list_args.entity_types
        np == req.list_args.name_pattern
    IN  {id \in RawIds :
            /\ (et # None /\ et[1] # <<>>) =>
                  \E k \in 1..Len(et[1]) :
                      FoldStr(et[1][k]) = FoldStr(TypeOf(FirstRecord(id)))
            /\ (np # None /\ np[1] # <<>>) => ContainsFolded(np[1], id)}

\* C19: in a successful list_entities result total_count is the number of
\* deduplicated entities passing the type filter (case-insensitive equality
\* with a requested type) and the name filter (case-insensitive substring),
\* returned_count is the length of the returned list, and has_more holds
\* exactly when offset + returned_count < total_count.
C19_ListingCounts ==
    (ListDone /\ ~graph.all_nodes_raises) =>
        LET r == result[1]
        IN  /\ r.total_count = Cardinality(PassingIds)
            /\ r.returned_count = Len(r.entities)
            /\ r.has_more <=> (r.offset + r.returned_count < r.total_count)

\* both filters are set, one deduplicated entity fails them, and the window
\* leaves a passing one out
C19_Witness ==
    /\ ListDone
    /\ ~graph.all_nodes_raises
    /\ SeqTruthy(req.list_args.entity_types)
    /\ SeqTruthy(req.list_args.name_pattern)
    /\ result[1].total_count = 2
    /\ Cardinality(RawIds) = 3
    /\ result[1].returned_count = 1
    /\ result[1].has_more

\* C20: a failure of the full node scan never reaches the caller:
\* list_entities returns no entities, zero counts and has_more false with the
\* requested offset and limit, get_entity_types_summary returns an empty
\* mapping and search_entities an empty list.
C20_ScanFailureGivesEmptyResult ==
    graph.all_nodes_raises =>
        /\ pc # "raised"
        /\ Done =>
              CASE req.op = "list_entities" ->
                      result = Some([entities |-> <<>>, total_count |-> 0,
                                     returned_count |-> 0,
                                     offset |-> req.list_args.offset,
                                     limit |-> req.list_args.limit,
                                     has_more |-> FALSE])
                [] req.op = "get_entity_types_summary" ->
                      result # None /\ DOMAIN result[1] = {}
                [] req.op = "search_entities" ->
                      result # None /\ Len(result[1]) = 0
                [] OTHER -> TRUE

\* the scan fails over a store that holds nodes, for a listing with an offset
C20_Witness ==
    /\ graph.all_nodes_raises
    /\ ListDone
    /\ RawIds # {}
    /\ req.list_args.offset = 1
    /\ result[1].offset = 1
    /\ result[1].entities = <<>>

-----------------------------------------------------------------------------
\* search_entities over ids that equal, start with, contain or miss the query

SearchNodePool ==
    {Dict([id |-> <<65, 98>>, entity_type |-> <<112>>]),
     Dict([id |-> <<98>>, entity_type |-> <<111>>]),
     Dict([id |-> <<98, 65>>, entity_type |-> <<112>>]),
     Dict([entity_name |-> <<65, 98>>, entity_type |-> <<111>>]),
     Dict([id |-> C])}

SearchQueries == {<<>>, <<97>>, <<98>>, <<66>>, <<97, 66>>}

SearchCalls ==
    {SearchRequest([query |-> q, entity_types |-> et, limit |-> l]) :
        q \in SearchQueries, et \in {None, Some(<<<<80>>>>)}, l \in 1..MaxRaw}

InitSearch ==
    \E ns \in UNION {[1..k -> SearchNodePool] : k \in 0..MaxRaw},
       r \in SearchCalls :
        InitWith([GraphOf(PlainNodeA, <<>>) EXCEPT !.all_nodes = ns], <<>>, r)

SpecSearch == InitSearch /\ [][NextList]_vars

SearchDone == req.op = "search_entities" /\ Done

\* the score the id earns for the query, in tenths; 0 when the id does not
\* contain the query
ScoreFor(id, query) ==
    LET i == FoldStr(id)
        q == FoldStr(query)
    IN  IF i = q THEN 10
        ELSE IF Len(q) <= Len(i) /\ \A j \in 1..Len(q) : i[j] = q[j] THEN 8
        ELSE IF ContainsFolded(query, id) THEN 5
        ELSE 0

\* C21: every entity search_entities returns carries the score its id earns
\* for the query (1.0 equal, else 0.8 prefix, else 0.5 substring, case
\* ignored), and the list is ordered by score, highest first.
C21_RelevanceScoreAndOrder ==
    SearchDone =>
        LET r == result[1]
            q == req.search_args.query
        IN  /\ \A k \in 1..Len(r) :
                  ContainsFolded(q, r[k].entity_id)
                      => r[k].relevance_score = ScoreFor(r[k].entity_id, q)
            /\ \A i, j \in 1..Len(r) :
                  i < j => r[i].relevance_score >= r[j].relevance_score

\* an exact match, a prefix match and a substring match, returned in that
\* order although the listing had them in another
C21_Witness ==
    /\ SearchDone
    /\ Len(result[1]) = 3
    /\ result[1][1].relevance_score = 10
    /\ result[1][2].relevance_score = 8
    /\ result[1][3].relevance_score = 5
    /\ result[1][3].entity_id = <<65, 98>>
    /\ req.search_args.query = <<66>>

\* C25: every entity search_entities returns contains the query, case
\* ignored, the empty query included, so its score is 1.0, 0.8 or 0.5 and
\* never 0.3.
C25_FuzzyScoreUnreachable ==
    SearchDone =>
        \A k \in 1..Len(result[1]) :
            /\ ContainsFolded(req.search_args.query, result[1][k].entity_id)
            /\ result[1][k].relevance_score \in {10, 8, 5}

\* the empty query returns entities, and a query that some stored id misses
\* returns only the ids that contain it
C25_Witness ==
    /\ SearchDone
    /\ \/ /\ req.search_args.query = <<>>
          /\ Len(result[1]) = 2
          /\ \A k \in 1..2 : result[1][k].relevance_score = 8
       \/ /\ req.search_args.query = <<97>>
          /\ C \in RawIds
          /\ Len(result[1]) = 2

\* the deduplicated ids that contain the query and pass the type filter
SearchMatches ==
    LET et == req.search_args.entity_types
    IN  {id \in RawIds :
            /\ (et # None /\ et[1] # <<>>) =>
                  \E k \in 1..Len(et[1]) :
                      FoldStr(et[1][k]) = FoldStr(TypeOf(FirstRecord(id)))
            /\ ContainsFolded(req.search_args.query, id)}

\* C28: search_entities returns the best matches: no matching entity left out
\* scores strictly higher than a returned one, and an entity whose id equals
\* the query, case ignored, is returned first.
C28_SearchReturnsBestMatches ==
    SearchDone =>
        LET r == result[1]
            q == req.search_args.query
            returned == {r[k].entity_id : k \in 1..Len(r)}
        IN  /\ \A m \in SearchMatches \ returned : \A x \in returned :
                  ScoreFor(m, q) <= ScoreFor(x, q)
            /\ (\E m \in SearchMatches : FoldStr(m) = FoldStr(q))
                  => /\ r # <<>>
                     /\ FoldStr(r[1].entity_id) = FoldStr(q)

-----------------------------------------------------------------------------
\* Store calls that raise: the single-entity operations await the stores
\* outside any try block (lines 59, 86, 95, 102, 332, 353)

StoreErrors == {"ConnectionError", "TimeoutError"}

\* the store call the operation is about to await
PendingCall ==
    CASE pc \in {"get_node", "doc_get_node"} ->
            [fn |-> "get_node", args |-> <<req.entity_name>>]
      [] pc = "has_node" -> [fn |-> "has_node", args |-> <<req.entity_name>>]
      [] pc = "get_node_edges" ->
            [fn |-> "get_node_edges", args |-> <<req.entity_name>>]
      [] pc = "get_edge" ->
            [fn |-> "get_edge", args |-> loc.all_edges[loc.i + 1]]
      [] pc = "get_by_ids" -> [fn |-> "get_by_ids", args |-> <<loc.source_ids>>]

StoreCallLabels ==
    {"get_node", "doc_get_node", "has_node", "get_node_edges", "get_edge",
     "get_by_ids"}

\* the failed call answered as "not found"
StoreCallRaises_Swallowed ==
    /\ pc \in StoreCallLabels
    /\ UNCHANGED <<graph, text_chunks, req, suspended>>
    /\ \E error \in StoreErrors :
          /\ calls' = Append(calls, Merge(PendingCall, [raised |-> error]))
          /\ Return(None, loc)

\* the awaited store call raises: the exception leaves the operation and
\* every operation that awaits it
StoreCallRaises ==
    /\ pc \in StoreCallLabels
    /\ UNCHANGED <<graph, text_chunks, req, suspended>>
    /\ \E error \in StoreErrors :
          /\ calls' = Append(calls, Merge(PendingCall, [raised |-> error]))
          /\ Raise(error, loc)

NextFail ==
    \/ Next
    \/ StoreCallRaises

SpecFail == Init /\ [][NextFail]_vars

\* the positions in the call log of the store calls that raised
FailedCalls == {k \in 1..Len(calls) : "raised" \in DOMAIN calls[k]}

\* C22: a store call that fails during a single-entity query ends the
\* operation with the error the store raised: the failed call is the last
\* store call (no retry, no further call), and no result is returned.
C22_StoreFailurePropagates ==
    \A k \in FailedCalls :
        /\ k = Len(calls)
        /\ pc = "raised"
        /\ loc.error = Some(calls[k].raised)
        /\ result = None

\* a full query whose second edge fetch fails after the first succeeded
C22_Witness ==
    /\ FullQuery
    /\ pc = "raised"
    /\ Len(calls) = 5
    /\ calls[4].fn = "get_edge"
    /\ "raised" \notin DOMAIN calls[4]
    /\ calls[5].fn = "get_edge"
    /\ "raised" \in DOMAIN calls[5]
    /\ loc.error = Some("TimeoutError")

-----------------------------------------------------------------------------
\* The stages of query_entity_full and the store calls they make

CallCount(fn) == Cardinality({k \in 1..Len(calls) : calls[k].fn = fn})

\* C24: in query_entity_full only the Detail, Relationships and Documents
\* stages call the stores, each only when its toggle is on; statistics and
\* related entities are computed from the outputs of those stages without a
\* store call; a section is in the result only if its toggle is on.
C24_StagesCallStoresOnlyWhenToggled ==
    FullQuery =>
        LET o == req.options
        IN  /\ ~o.include_relationships =>
                  CalledFns \cap {"has_node", "get_node_edges", "get_edge"} = {}
            /\ ~o.include_documents => "get_by_ids" \notin CalledFns
            /\ CallCount("get_node") <= (IF o.include_entity_details THEN 1 ELSE 0)
                                        + (IF o.include_documents THEN 1 ELSE 0)
            /\ CallCount("has_node") <= 1
            /\ CallCount("get_node_edges") <= 1
            /\ CallCount("get_by_ids") <= 1
            /\ FullDone =>
                  LET r == FullResultOf
                      stats == _compute_statistics(GetOpt(r, "entity"),
                                                   GetOpt(r, "relationships"),
                                                   GetOpt(r, "documents"))
                  IN  /\ "entity" \in DOMAIN r => o.include_entity_details
                      /\ "relationships" \in DOMAIN r => o.include_relationships
                      /\ "documents" \in DOMAIN r => o.include_documents
                      /\ "statistics" \in DOMAIN r =>
                            o.include_statistics /\ r.statistics = stats
                      /\ (o.include_statistics /\ "statistics" \notin DOMAIN r)
                            => DOMAIN stats = {}
                      /\ "related_entities" \in DOMAIN r =>
                            /\ o.compute_related_entities
                            /\ o.include_relationships
                            /\ r.related_entities =
                                  _extract_related_entities(
                                      req.entity_name, r.relationships,
                                      o.max_related_entities)

\* relationships are off, details and documents on: two node lookups and one
\* chunk fetch, and statistics built from the node and the chunks
C24_Witness ==
    /\ FullDone
    /\ ~req.options.include_relationships
    /\ req.options.include_entity_details
    /\ req.options.include_documents
    /\ req.options.include_statistics
    /\ [k \in 1..Len(calls) |-> calls[k].fn] = <<"get_node", "get_node", "get_by_ids">>
    /\ "statistics" \in DOMAIN FullResultOf
    /\ "returned_chunks" \in DOMAIN FullResultOf.statistics
    /\ "relationships" \notin DOMAIN FullResultOf

-----------------------------------------------------------------------------
\* The source-chunk count of one node record, in the listing and in the
\* statistics

NextCount ==
    \/ Construct
    \/ GetNode
    \/ GetAllNodes

\* source ids as a joined string, as a string with an empty segment, as a
\* list, as a list with an empty string, under either key, absent
SourceIdFields ==
    {[source_id |-> Str(Joined(cx, cy))],
     [source_id |-> Str(Joined(cx, <<>>))],
     [source_id |-> Str(cy)],
     [source_ids |-> List(<<cx, cy, cw>>)],
     [source_ids |-> List(<<cx, <<>>>>)],
     [source_id |-> Str(<<>>), source_ids |-> List(<<cw>>)],
     [entity_type |-> <<112>>]}

CountIds == <<A, B, C, Z>>

\* k node records with the ids A, B, ...
CountNodeLists ==
    UNION {{[i \in 1..k |-> Merge([id |-> CountIds[i]], f[i])] :
               f \in [1..k -> SourceIdFields]} : k \in 1..MaxNodes}

CountRequests(ns) ==
    {ListRequest(<<>>)}
    \cup {Request("query_entity_full", ns[i].id, None, None,
                  [DefaultOptions EXCEPT !.include_relationships = FALSE,
                                         !.include_documents = FALSE]) :
            i \in 1..Len(ns)}

\* the graph store holds the records by id and returns them on a scan
InitCount ==
    \E ns \in CountNodeLists :
        \E r \in CountRequests(ns) :
            InitWith([nodes |-> [id \in {ns[i].id : i \in 1..Len(ns)} |->
                                    ns[CHOOSE i \in 1..Len(ns) : ns[i].id = id]],
                      edges |-> <<>>,
                      all_nodes |-> [i \in 1..Len(ns) |-> Dict(ns[i])],
                      all_nodes_raises |-> FALSE],
                     <<>>, r)

SpecCount == InitCount /\ [][NextCount]_vars

\* C26: for every node record, source ids with empty segments included, the
\* source_count of its list_entities summary equals the total_source_chunks
\* the statistics report for the same record.
C26_SourceCountSameInListingAndStatistics ==
    /\ ListDone =>
          \A k \in 1..Len(result[1].entities) :
              LET e == result[1].entities[k]
                  stats == _compute_statistics(Some(graph.nodes[e.entity_id]),
                                               None, None)
              IN  e.source_count = stats.total_source_chunks
    /\ FullDone =>
          FullResultOf.statistics.total_source_chunks
              = EntitySummary(FullResultOf.entity, req.entity_name).source_count

-----------------------------------------------------------------------------
\* Edge records that carry source, target or direction keys of their own

KeyedEdgeData ==
    {Some([weight |-> 2]), Some([weight |-> 4, source |-> Z]),
     Some([weight |-> 6, target |-> Z]),
     Some([weight |-> 8, direction |-> "outgoing"]),
     Some([weight |-> 8, direction |-> "incoming"])}

InitKeyed ==
    \E es \in EdgeLists({<<B, A>>, <<A, C>>, <<A, A>>}, KeyedEdgeData, MaxEdges),
       d \in Directions :
        InitWith(GraphOf(PlainNodeA, es), <<>>,
                 RelationshipsRequest([direction |-> d]))

SpecKeyed == InitKeyed /\ [][NextRelationships]_vars

\* C27: whatever keys the stored edge records carry, every record of the
\* incoming list has direction "incoming" and the queried entity as target,
\* and every record of the outgoing list has direction "outgoing" and the
\* queried entity as source.
C27_ListedEdgesNameQueriedEntity ==
    RelationshipsDone =>
        /\ \A k \in 1..Len(result[1].incoming) :
              /\ result[1].incoming[k].direction = "incoming"
              /\ result[1].incoming[k].target = req.entity_name
        /\ \A k \in 1..Len(result[1].outgoing) :
              /\ result[1].outgoing[k].direction = "outgoing"
              /\ result[1].outgoing[k].source = req.entity_name

-----------------------------------------------------------------------------
\* get_entity_documents under the four settings of its two toggles

ChunkIdsOf(documents) == [k \in 1..Len(documents) |-> documents[k].chunk_id]

\* what the same call returns with the toggles set to t and m
DocumentsUnder(t, m) ==
    DocumentsOf(get_by_ids(loc.source_ids),
                [loc.document_filters[1] EXCEPT !.include_full_text = t,
                                                !.include_metadata = m])

\* C29: include_full_text and include_metadata only decide the fields of the
\* returned chunks: calls of get_entity_documents that differ only in these
\* toggles return the same chunk ids in the same order.
C29_TogglesKeepChunkIdsAndOrder ==
    (DocumentsDone /\ "get_by_ids" \in CalledFns) =>
        \A t \in Booleans, m \in Booleans :
            ChunkIdsOf(DocumentsUnder(t, m)) = ChunkIdsOf(result[1])

-----------------------------------------------------------------------------
\* Deduplication and filtering in list_entities

\* the positions of the raw records that resolve to the id
RecordsOf(id) == {i \in RawDicts : RawId(graph.all_nodes[i].v) = id}

\* C30: in list_entities deduplication precedes filtering: of the raw records
\* with one canonical id only the first in scan order counts; the id is
\* listed iff that record passes the type and name filters, with the type of
\* that record, and a later record with the id is never listed instead.
C30_DeduplicationPrecedesFiltering ==
    (ListDone /\ ~graph.all_nodes_raises) =>
        LET listed == {result[1].entities[k].entity_id :
                          k \in 1..Len(result[1].entities)}
        IN  /\ listed \subseteq PassingIds
            /\ (req.list_args.offset = 0
                  /\ req.list_args.limit >= Cardinality(RawIds))
                  => listed = PassingIds
            /\ \A k \in 1..Len(result[1].entities) :
                  LET e == result[1].entities[k]
                      first == FirstRecord(e.entity_id)
                  IN  e.entity_type = GetOpt(first, "entity_type")

\* the first record of "A" fails the type filter, a later record of "A"
\* would pass it, and "A" is not listed
C30_Witness ==
    /\ ListDone
    /\ ~graph.all_nodes_raises
    /\ req.list_args.offset = 0
    /\ req.list_args.limit >= Cardinality(RawIds)
    /\ req.list_args.entity_types = Some(<<<<111>>>>)
    /\ Cardinality(RecordsOf(A)) >= 2
    /\ TypeOf(FirstRecord(A)) = <<112>>
    /\ \E i \in RecordsOf(A) : FoldStr(TypeOf(graph.all_nodes[i].v)) = <<111>>
    /\ \A k \in 1..Len(result[1].entities) : result[1].entities[k].entity_id # A
    /\ Len(result[1].entities) = 1

-----------------------------------------------------------------------------
\* Concurrent requests on one engine: the event loop runs one coroutine at a
\* time and may pass from one to another at every await

MaxQueries == 2

\* the request that runs, as the record kept for a suspended one
Running == [req |-> req, pc |-> pc, loc |-> loc, calls |-> calls, result |-> result]

NotStarted(r) ==
    [req |-> r, pc |-> "construct", loc |-> InitLoc, calls |-> <<>>, result |-> None]

\* the locals left where they are, as if the engine kept them on itself
Switch_SharedLocals ==
    \E i \in 1..Len(suspended) :
        /\ suspended' = [suspended EXCEPT ![i] = Running]
        /\ req' = suspended[i].req
        /\ pc' = suspended[i].pc
        /\ loc' = loc
        /\ calls' = suspended[i].calls
        /\ result' = suspended[i].result
        /\ UNCHANGED <<graph, text_chunks>>

\* the event loop suspends the running coroutine at its await and resumes
\* another one; each coroutine keeps its own arguments and locals
Switch ==
    \E i \in 1..Len(suspended) :
        /\ suspended' = [suspended EXCEPT ![i] = Running]
        /\ req' = suspended[i].req
        /\ pc' = suspended[i].pc
        /\ loc' = suspended[i].loc
        /\ calls' = suspended[i].calls
        /\ result' = suspended[i].result
        /\ UNCHANGED <<graph, text_chunks>>

NextConcurrent ==
    \/ Next
    \/ Switch

ConcurrentEdges ==
    <<Edge(B, A, Some([weight |-> 2])), Edge(A, C, Some([weight |-> 6])),
      Edge(C, A, None)>>

ConcurrentRequests ==
    {Request("get_entity_details", A, None, None, DefaultOptions),
     Request("get_entity_relationships", A, Some([limit |-> Some(1)]), None,
             DefaultOptions),
     Request("get_entity_relationships", B, Some([direction |-> "outgoing"]),
             None, DefaultOptions),
     Request("get_entity_documents", A, None, Some([max_chunks |-> 1]),
             DefaultOptions),
     Request("query_entity_full", A, Some([min_weight |-> 5]),
             Some([include_metadata |-> FALSE]),
             [DefaultOptions EXCEPT !.compute_related_entities = TRUE]),
     Request("query_entity_full", Z, None, None, DefaultOptions),
     Request("get_entity_documents", A, None, Some([max_chunks |-> 0]),
             DefaultOptions)}

\* up to MaxQueries requests in flight on one engine over one pair of stores
InitConcurrent ==
    \E rs \in UNION {[1..k -> ConcurrentRequests] : k \in 1..MaxQueries} :
        /\ graph = GraphOf(PlainNodeA, ConcurrentEdges)
        /\ text_chunks = DocsChunks
        /\ req = rs[1]
        /\ pc = "construct"
        /\ loc = InitLoc
        /\ calls = <<>>
        /\ result = None
        /\ suspended = [i \in 1..(Len(rs) - 1) |-> NotStarted(rs[i + 1])]

SpecConcurrent == InitConcurrent /\ [][NextConcurrent]_vars

\* the filter objects the caller builds for a request
RelationshipFiltersOf(r) ==
    RelationshipFilters(IF r.relationship_filters = None THEN <<>>
                        ELSE r.relationship_filters[1])

DocumentFiltersOf(r) ==
    DocumentFilters(IF r.document_filters = None THEN <<>>
                    ELSE r.document_filters[1])

\* what the operations return when nothing else runs, from the store contents
AloneEdgesWithData(name) ==
    LET all == get_node_edges(name)
        data(i) == get_edge(all[i][1], all[i][2])
        kept == SelectIdx(all, {i \in 1..Len(all) :
                                   data(i) # None /\ DOMAIN data(i)[1] # {}}, 1)
    IN  [i \in 1..Len(kept) |->
            EdgeWithData(kept[i][1], kept[i][2],
                         get_edge(kept[i][1], kept[i][2])[1], name)]

AloneRelationships(name, rf) ==
    IF ~has_node(name) \/ get_node_edges(name) = <<>> THEN EmptyRelationships
    ELSE RelationshipsOf(AloneEdgesWithData(name), name, rf)

AloneDocuments(name, df) ==
    LET entity_data == get_node(name)
        source_ids == SourceIds(entity_data[1])
        wanted == IF SeqTruthy(df.chunk_ids)
                  THEN SelectIdx(source_ids,
                                 {i \in 1..Len(source_ids) :
                                     ListIn(source_ids[i], df.chunk_ids[1])}, 1)
                  ELSE source_ids
    IN  IF entity_data = None \/ DOMAIN entity_data[1] = {} THEN <<>>
        ELSE IF source_ids = <<>> THEN <<>>
        ELSE DocumentsOf(get_by_ids(wanted), df)

AloneFull(r) ==
    LET o == r.options
        stages ==
            [entity_data |-> IF o.include_entity_details
                             THEN get_node(r.entity_name) ELSE None,
             relationships |-> IF o.include_relationships
                               THEN Some(AloneRelationships(r.entity_name,
                                                            RelationshipFiltersOf(r)))
                               ELSE None,
             documents |-> IF o.include_documents
                           THEN Some(AloneDocuments(r.entity_name,
                                                    DocumentFiltersOf(r)))
                           ELSE None]
    IN  IF o.include_entity_details /\ get_node(r.entity_name) = None THEN None
        ELSE Some(FullResult(r.entity_name, o, stages))

AloneRaises(r) ==
    \/ ~RelationshipFilters_post_init(RelationshipFiltersOf(r))
    \/ ~DocumentFilters_post_init(DocumentFiltersOf(r))
    \/ (r.op = "query_entity_full" /\ ~EntityQueryOptions_post_init(r.options))

AloneResult(r) ==
    CASE r.op = "get_entity_details" -> get_node(r.entity_name)
      [] r.op = "get_entity_relationships" ->
            AloneRelationships(r.entity_name, RelationshipFiltersOf(r))
      [] r.op = "get_entity_documents" ->
            AloneDocuments(r.entity_name, DocumentFiltersOf(r))
      [] r.op = "query_entity_full" -> AloneFull(r)

\* a request and what has come of it so far
SameAsAlone(c) ==
    /\ c.pc = "done" => (~AloneRaises(c.req) /\ c.result = Some(AloneResult(c.req)))
    /\ c.pc = "raised" => (AloneRaises(c.req) /\ c.result = None)
    /\ c.loc.relationship_filters \in {None, Some(RelationshipFiltersOf(c.req))}
    /\ c.loc.document_filters \in {None, Some(DocumentFiltersOf(c.req))}

\* the requests in flight, the running one first
InFlight == <<Running>> \o suspended

RequestsInFlight == {InFlight[i].req : i \in 1..Len(InFlight)}

\* C23: the engine keeps no state of its own and writes neither to the
\* stores nor to the filters: however concurrent queries interleave at their
\* store calls, each returns what it returns alone, its filter objects stay
\* as built, and the stores and the requests are left as they were.
C23_ConcurrentQueriesAreIndependent ==
    /\ [](\A i \in 1..Len(InFlight) : SameAsAlone(InFlight[i]))
    /\ [][/\ graph' = graph
          /\ text_chunks' = text_chunks
          /\ RequestsInFlight' = RequestsInFlight]_vars

\* two queries of the same entity have both returned after the second one
\* ran between two store calls of the first
C23_Witness ==
    /\ Len(suspended) = 1
    /\ pc = "done"
    /\ suspended[1].pc = "done"
    /\ req.op = "query_entity_full"
    /\ req.entity_name = A
    /\ suspended[1].req.op = "get_entity_relationships"
    /\ suspended[1].req.entity_name = A
    /\ Len(calls) >= 6
    /\ result = Some(AloneResult(req))
    /\ suspended[1].result = Some(AloneResult(suspended[1].req))

\* the sequential operations return what the closed forms say
AloneMatchesSequential ==
    /\ (Done /\ req.op \in {"get_entity_details", "get_entity_relationships",
                            "get_entity_documents", "query_entity_full"})
          => result = Some(AloneResult(req))
    /\ pc = "raised" => AloneRaises(req)

====
